---- MODULE Spec2Model ----
(***************************************************************************)
(* A model of the page classification and region detection core of         *)
(* rag-preprocessing-optimizer:                                             *)
(*   core/unified_figure_detector.py  detectors, detect_once, fusion        *)
(*   core/hybrid_processor.py         HybridProcessor.analyze_page_content  *)
(*   core/practical_optimizer.py      PracticalPageAnalyzer.analyze_page    *)
(*   core/smart_page_analyzer.py      SmartPageAnalyzer.analyze_page_content*)
(*   core/region_based_processor.py   region detection and merging          *)
(* Each subsystem has its own specification over the shared variables; the  *)
(* variable sys names the subsystem a behaviour runs.                       *)
(***************************************************************************)
EXTENDS Integers, Sequences, FiniteSets, TLC

VARIABLES
    sys,          \* which entry point this behaviour runs
    config,       \* PracticalConfig.skip_page_patterns of the analyzer
    faults,       \* what goes wrong in this behaviour: queries that raise, detectors
                  \* that raise, detectors that never return
    pc,           \* position inside that entry point
    page,         \* the fitz.Page the entry point is called with (its raw signals)
    page_cache,   \* UnifiedFigureDetector._build_page_cache result
    futures,      \* detect_once: detector name -> state of its future
    results,      \* detect_once: the results dict, in insertion order
    integrated,   \* detect_once: the FigureDetectionResult returned
    decision,     \* HybridProcessor.analyze_page_content: the PageProcessingDecision
    stats,        \* PracticalPageAnalyzer.stats
    quick_result, \* PracticalPageAnalyzer.analyze_page: _quick_screening result
    detailed_result, \* PracticalPageAnalyzer.analyze_page: _detailed_analysis result
    analysis,     \* analyze_page / SmartPageAnalyzer.analyze_page_content return value
    regions,      \* RegionBasedProcessor: the region list being built / returned
    merged_once,  \* _merge_overlapping_regions(regions)
    merged_twice, \* _merge_overlapping_regions applied to its own output
    clusters,     \* _detect_figure_clusters: the cluster bboxes returned
    clip_rect,    \* extract_region: the clip rectangle handed to get_pixmap
    doc,          \* PracticalDocumentProcessor: the pages of the document
    page_num,     \* process_pdf: the pages handled so far
    summary,      \* process_pdf / process_pdf_parallel: the results dict
    workers,      \* process_pdf_parallel: page number -> state of its worker thread
    calls         \* HybridProcessor: process_document calls made on the instance

vars == <<sys, config, faults, pc, page, page_cache, futures, results, integrated, decision,
          stats, quick_result, detailed_result, analysis, regions,
          merged_once, merged_twice, clusters, clip_rect, doc, page_num,
          summary, workers, calls>>

NONE == "none"
NoFaults == [queries |-> {}, raising |-> {}, stuck |-> {}]
NoResult == [type |-> "none"]     \* Python's None where a record may stand

(***************************************************************************)
(* Bounds of the model.                                                     *)
(***************************************************************************)
MaxRects  == 3
MaxLines  == 12
MaxCurves == 1
MaxTables == 1
MaxImages == 1

(***************************************************************************)
(* Sequence helpers.                                                        *)
(***************************************************************************)
RECURSIVE SeqsUpTo(_, _)
SeqsUpTo(S, n) ==
    IF n = 0 THEN {<<>>}
    ELSE LET shorter == SeqsUpTo(S, n - 1)
         IN  shorter \cup {Append(s, x) : s \in {t \in shorter : Len(t) = n - 1}, x \in S}

RECURSIVE SumSeq(_)
SumSeq(s) == IF s = <<>> THEN 0 ELSE Head(s) + SumSeq(Tail(s))

Min2(a, b) == IF a < b THEN a ELSE b
Max2(a, b) == IF a > b THEN a ELSE b

(***************************************************************************)
(* Python floats.  Every float the confidence formulas produce is a         *)
(* multiple of 2^-58 below 4.0, so a double d is held exactly as the pair   *)
(* <<hi, lo>> with d * 2^58 = hi * 2^30 + lo.  Sums and products are        *)
(* computed exactly and then rounded to 53 significant bits, ties to even,  *)
(* as IEEE-754 binary64 does.                                               *)
(***************************************************************************)
Limb == 2^30

\* the doubles nearest to the decimal literals of the source
F_0   == <<0, 0>>
F_002 == <<5368709, 128849019>>      \* 0.02  = 0x1.47ae147ae147bp-6
F_005 == <<13421772, 858993460>>     \* 0.05  = 0x1.999999999999ap-5
F_01  == <<26843545, 644245096>>     \* 0.1   = 0x1.999999999999ap-4
F_03  == <<80530636, 858993456>>     \* 0.3   = 0x1.3333333333333p-2
F_04  == <<107374182, 429496736>>    \* 0.4   = 0x1.999999999999ap-2
F_05  == <<2^27, 0>>                 \* 0.5
F_06  == <<161061273, 644245088>>    \* 0.6   = 0x1.3333333333333p-1
F_07  == <<187904819, 214748352>>    \* 0.7   = 0x1.6666666666666p-1
F_075 == <<201326592, 0>>            \* 0.75  = 0x1.8p-1
F_077 == <<206695301, 128849024>>    \* (0.1 + 1.0) * 0.7 = 0x1.8a3d70a3d70a4p-1
F_08  == <<214748364, 858993472>>    \* 0.8   = 0x1.999999999999ap-1
F_085 == <<228170137, 644245088>>    \* 0.85  = 0x1.b333333333333p-1
F_09  == <<241591910, 429496736>>    \* 0.9   = 0x1.ccccccccccccdp-1
F_095 == <<255013683, 214748352>>    \* 0.95  = 0x1.e666666666666p-1
F_1   == <<2^28, 0>>
F_15  == <<3 * 2^27, 0>>             \* 1.0 * 1.5

FLess(x, y) == x[1] < y[1] \/ (x[1] = y[1] /\ x[2] < y[2])
FGreater(x, y) == FLess(y, x)
FLeq(x, y) == ~FLess(y, x)
FMin(x, y) == IF FLess(y, x) THEN y ELSE x    \* Python min(x, y)

\* exact sum of two scaled integers
ExactAdd(x, y) ==
    LET lo == x[2] + y[2]
    IN  IF lo >= Limb THEN <<x[1] + y[1] + 1, lo - Limb>> ELSE <<x[1] + y[1], lo>>

RECURSIVE ExactTimes(_, _)
ExactTimes(n, x) == IF n = 0 THEN F_0 ELSE ExactAdd(ExactTimes(n - 1, x), x)

\* the spacing of doubles in the binade of v, in units of 2^-58
Ulp(v) ==
    IF v[1] < 2^22 THEN 1
    ELSE LET e == CHOOSE k \in 22..30 : 2^k <= v[1] /\ (k = 30 \/ v[1] < 2^(k + 1))
         IN  2^(e - 22)

\* round to nearest double, ties to even
FRound(v) ==
    LET u    == Ulp(v)
        r    == v[2] % u
        q    == v[2] \div u
        down == <<v[1], v[2] - r>>
    IN  IF 2 * r > u \/ (2 * r = u /\ q % 2 = 1)
        THEN ExactAdd(down, <<0, u>>)
        ELSE down

FAdd(x, y) == FRound(ExactAdd(x, y))          \* x + y
FMulInt(n, x) == FRound(ExactTimes(n, x))     \* n * x, n a non-negative int


(***************************************************************************)
(* Page text.  A text is a sequence of tokens, each standing for a          *)
(* substring the regular expressions and keyword lists of the source can    *)
(* tell apart:                                                              *)
(*   "FIG"   a figure number with sub-number, as in "図1-1"                 *)
(*   "REF"   the reference suffix "の通り"                                  *)
(*   "TXT"   running text without any keyword, as in "システム構成"         *)
(*   "SP"    one blank                                                      *)
(*   "NL"    a newline                                                      *)
(*   "FLOW"  the keyword "フロー図"                                         *)
(*   "START" the keyword "START"                                            *)
(*   "STEP"  a numbered step, as in "STEP1"                                 *)
(*   "ARROWS" three arrow characters, "→→→"                                 *)
(*   "TOC"   the heading "目次"                                             *)
(***************************************************************************)
Contains(text, tok) == \E i \in 1..Len(text) : text[i] = tok

IsSpace(tok) == tok \in {"SP", "NL"}        \* what \s matches

\* re.search(r'図\s*\d+[-\.]\d+\s*の通り', text): of reference_patterns only the
\* "の通り" forms can match a text over the tokens above
MatchesReference(text) ==
    \E i \in 1..Len(text) : \E j \in (i + 1)..Len(text) :
        /\ text[i] = "FIG"
        /\ text[j] = "REF"
        /\ \A k \in (i + 1)..(j - 1) : IsSpace(text[k])

\* re.search(r'図\s*\d+[-\.]\d+', text), the first of figure_number_patterns
MatchesFigureNumber(text) == Contains(text, "FIG")

\* r'(?:^|\n)\s*' before position i under re.MULTILINE: only blanks between
\* the start of some line and i
AtLineStart(text, i) ==
    \E j \in 1..i :
        /\ j = 1 \/ text[j - 1] = "NL"
        /\ \A k \in j..(i - 1) : IsSpace(text[k])

\* the three positional patterns of _quick_screening, for a figure number at i:
\*   1  (?:^|\n)\s*FIG[\s　:]      2  (?:^|\n)\s*FIG\s*(?:\n|$)
\*   3  (?:^|\n)\s{3,}FIG(?:\s|$)
IsCaptionAt(text, i) ==
    /\ text[i] = "FIG"
    /\ AtLineStart(text, i)
    /\ i = Len(text) \/ IsSpace(text[i + 1])

MatchesCaptionPosition(text) == \E i \in 1..Len(text) : IsCaptionAt(text, i)

\* a figure number that stands alone on its line
CaptionOnOwnLine(text) ==
    \E i \in 1..Len(text) :
        /\ text[i] = "FIG"
        /\ i = 1 \/ text[i - 1] = "NL"
        /\ i = Len(text) \/ text[i + 1] = "NL"

\* every figure number of the text is followed by the reference suffix
OnlyInsideReference(text) ==
    /\ Contains(text, "FIG")
    /\ \A i \in 1..Len(text) :
           text[i] = "FIG" => (i < Len(text) /\ text[i + 1] = "REF")

(***************************************************************************)
(* The raw signals of a page, as the fitz calls of the source return them.  *)
(***************************************************************************)
NoBBox == <<0, 0, 0, 0>>      \* a fitz.Rect that is falsy

\* a page without text, drawings, tables or images
NoPage ==
    [text          |-> <<>>,   \* page.get_text()
     text_density  |-> 0,      \* text block area * 100 / page area
     spread        |-> FALSE,  \* more than 5 text blocks, widely spread
     rects         |-> 0,      \* drawings d with d.get('type') == 'r'
     lines         |-> 0,      \* drawings d with d.get('type') == 'l'
     curves        |-> 0,      \* drawings d with d.get('type') == 'c'
     drawing_count |-> 0,      \* len(page.get_drawings())
     shapes        |-> <<>>,   \* extents of the 'l'/'c' items of each drawing that has some
     tables        |-> <<>>,   \* page.find_tables(): <<[cell_count, bbox], ...>>
     images        |-> <<>>,   \* page.get_images(): <<[width, height, bbox], ...>>
     captioned_y   |-> {}]     \* the y below which get_textbox finds a caption line

\* pixel sizes of embedded images: large, just above the minimum size, and two
\* not above it in one dimension, the second with more than 50000 pixels
ImageSizes == {<<400, 300>>, <<101, 101>>, <<100, 400>>, <<100, 600>>}


(***************************************************************************)
(* core/unified_figure_detector.py                                          *)
(***************************************************************************)
MinArrowsForFlowchart == 2      \* FlowchartDetector.min_arrows
MinRectsForFlowchart  == 3      \* FlowchartDetector.min_rects
EmbeddedImageMinSize  == 100    \* EmbeddedImageDetector.min_size
MinCombinedShapes     == 8      \* DiagramDetector.min_shapes
DiagramComplexAbove   == 20
FlowchartComplexAbove == 5

\* self.detectors, in registration (dict insertion) order
RegisteredDetectors == <<"flowchart", "table", "embedded_image", "diagram">>
DetectorNames == {RegisteredDetectors[i] : i \in 1..Len(RegisteredDetectors)}
RegistrationIndex(name) ==
    CHOOSE i \in 1..Len(RegisteredDetectors) : RegisteredDetectors[i] = name

DetectionResult(type, confidence, complexity) ==
    [type |-> type, confidence |-> confidence, complexity |-> complexity]

\* every line counted as an arrow
DetectArrowsPerLine(cache) == cache.lines

\* FlowchartDetector._detect_arrows
DetectArrows(cache) == IF cache.lines > 0 THEN cache.lines \div 3 ELSE 0

\* sum(1 for kw in flowchart_keywords if kw in text)
FlowchartKeywordMatches(text) ==
    Cardinality({kw \in {"FLOW", "START"} : Contains(text, kw)})

FlowchartConfidence(arrow_count, keyword_matches) ==
    FMin(FAdd(FAdd(F_06, FMulInt(arrow_count, F_01)),
              FMulInt(keyword_matches, F_005)), F_1)

\* FlowchartDetector.detect of a detector constructed with min_arrows
FlowchartDetectWith(cache, min_arrows) ==
    LET rect_count      == cache.rects
        arrow_count     == DetectArrows(cache)
        keyword_matches == FlowchartKeywordMatches(cache.text)
    IN  IF rect_count >= MinRectsForFlowchart /\ arrow_count >= min_arrows
        THEN DetectionResult("flowchart",
                 FlowchartConfidence(arrow_count, keyword_matches),
                 IF arrow_count > FlowchartComplexAbove THEN "complex" ELSE "medium")
        ELSE NoResult

\* the detector UnifiedFigureDetector registers without a config
FlowchartDetect(cache) == FlowchartDetectWith(cache, MinArrowsForFlowchart)

TableDetect(cache) ==
    IF cache.tables > 0
    THEN DetectionResult("table", F_09,
             IF cache.tables = 1 THEN "simple" ELSE "medium")
    ELSE NoResult

SignificantImages(images, min_size) ==
    SelectSeq(images, LAMBDA img : img.width > min_size /\ img.height > min_size)

EmbeddedImageDetect(cache) ==
    IF SignificantImages(cache.images, EmbeddedImageMinSize) # <<>>
    THEN DetectionResult("embedded_image", F_095, "medium")
    ELSE NoResult

DiagramConfidence(total_shapes) ==
    FMin(FAdd(F_04, FMulInt(total_shapes, F_002)), F_08)

DiagramDetect(cache) ==
    LET total_shapes == cache.rects + cache.lines + cache.curves
    IN  IF total_shapes >= MinCombinedShapes
        THEN DetectionResult("diagram", DiagramConfidence(total_shapes),
                 IF total_shapes > DiagramComplexAbove THEN "complex" ELSE "medium")
        ELSE NoResult

\* detector.detect(page_cache) of the detector registered under name
Detect(name, cache) ==
    CASE name = "flowchart"      -> FlowchartDetect(cache)
      [] name = "table"          -> TableDetect(cache)
      [] name = "embedded_image" -> EmbeddedImageDetect(cache)
      [] name = "diagram"        -> DiagramDetect(cache)

\* _build_page_cache
BuildCache(p) ==
    [text   |-> p.text,
     rects  |-> p.rects,
     lines  |-> p.lines,
     curves |-> p.curves,
     tables |-> Len(p.tables),
     images |-> [i \in 1..Len(p.images) |->
                    [width |-> p.images[i].width, height |-> p.images[i].height]]]

NoCache == BuildCache(NoPage)

\* _build_page_cache when the queries named in failed raise: a try block that
\* fails leaves its field as it was initialised
BuildCacheUnder(p, failed) ==
    LET cache == BuildCache(p)
    IN  [text   |-> cache.text,
         rects  |-> IF "drawings" \in failed THEN 0 ELSE cache.rects,
         lines  |-> IF "drawings" \in failed THEN 0 ELSE cache.lines,
         curves |-> IF "drawings" \in failed THEN 0 ELSE cache.curves,
         tables |-> IF "tables" \in failed THEN 0 ELSE cache.tables,
         images |-> IF "images" \in failed THEN <<>> ELSE cache.images]

\* the FigureDetectionResult _integrate_results starts from, with the loop's
\* max_confidence and primary_result
InitialIntegration ==
    [has_figure |-> FALSE, has_table |-> FALSE, has_flowchart |-> FALSE,
     has_embedded_image |-> FALSE, has_diagram |-> FALSE,
     reasons |-> <<>>, max_confidence |-> F_0, primary_result |-> NoResult]

\* one pass of the loop body of _integrate_results: the highest confidence
\* seen so far is replaced only by a strictly greater one
IntegrateStepLastWins(acc, entry) ==
    LET result == entry.result
    IN  [has_figure         |-> acc.has_figure \/ result.type \in {"flowchart", "embedded_image", "diagram"},
         has_table          |-> acc.has_table \/ result.type = "table",
         has_flowchart      |-> acc.has_flowchart \/ result.type = "flowchart",
         has_embedded_image |-> acc.has_embedded_image \/ result.type = "embedded_image",
         has_diagram        |-> acc.has_diagram \/ result.type = "diagram",
         reasons            |-> Append(acc.reasons, entry.name),
         max_confidence     |-> IF FLeq(acc.max_confidence, result.confidence)
                                THEN result.confidence ELSE acc.max_confidence,
         primary_result     |-> IF FLeq(acc.max_confidence, result.confidence)
                                THEN result ELSE acc.primary_result]

IntegrateStep(acc, entry) ==
    LET result == entry.result
        higher == FGreater(result.confidence, acc.max_confidence)
    IN  [has_figure         |-> acc.has_figure \/ result.type \in {"flowchart", "embedded_image", "diagram"},
         has_table          |-> acc.has_table \/ result.type = "table",
         has_flowchart      |-> acc.has_flowchart \/ result.type = "flowchart",
         has_embedded_image |-> acc.has_embedded_image \/ result.type = "embedded_image",
         has_diagram        |-> acc.has_diagram \/ result.type = "diagram",
         reasons            |-> Append(acc.reasons, entry.name),
         max_confidence     |-> IF higher THEN result.confidence ELSE acc.max_confidence,
         primary_result     |-> IF higher THEN result ELSE acc.primary_result]

RECURSIVE IntegrateLoop(_, _)
IntegrateLoop(acc, entries) ==
    IF entries = <<>> THEN acc
    ELSE IntegrateLoop(IntegrateStep(acc, Head(entries)), Tail(entries))

\* _integrate_results(results); results is the dict as the sequence of its
\* items, [name, result], in insertion order
IntegrateResultsTableIsFigure(entries) ==
    LET acc == IntegrateLoop(InitialIntegration, entries)
        primary == acc.primary_result
    IN  [has_figure         |-> acc.has_figure \/ acc.has_table,
         has_table          |-> acc.has_table,
         has_flowchart      |-> acc.has_flowchart,
         has_embedded_image |-> acc.has_embedded_image,
         has_diagram        |-> acc.has_diagram,
         primary_type       |-> IF primary # NoResult THEN primary.type ELSE "text_only",
         confidence         |-> IF primary # NoResult THEN primary.confidence ELSE F_0,
         complexity         |-> IF primary # NoResult THEN primary.complexity ELSE "simple",
         reasons            |-> acc.reasons]

IntegrateResults(entries) ==
    LET acc == IntegrateLoop(InitialIntegration, entries)
        primary == acc.primary_result
    IN  [has_figure         |-> acc.has_figure,
         has_table          |-> acc.has_table,
         has_flowchart      |-> acc.has_flowchart,
         has_embedded_image |-> acc.has_embedded_image,
         has_diagram        |-> acc.has_diagram,
         primary_type       |-> IF primary # NoResult THEN primary.type ELSE "text_only",
         confidence         |-> IF primary # NoResult THEN primary.confidence ELSE F_0,
         complexity         |-> IF primary # NoResult THEN primary.complexity ELSE "simple",
         reasons            |-> acc.reasons]


(***************************************************************************)
(* Variables a subsystem does not use stay at these values.                 *)
(***************************************************************************)
detectVars    == <<page_cache, futures, results, integrated>>
hybridVars    == <<decision>>
practicalVars == <<stats, quick_result, detailed_result>>
regionVars    == <<regions, merged_once, merged_twice, clusters, clip_rect>>
docVars       == <<doc, page_num, summary, workers, calls>>

DetectIdle    == page_cache = NoCache /\ futures = <<>> /\ results = <<>> /\ integrated = NONE
HybridIdle    == decision = NONE
PracticalIdle == stats = NONE /\ quick_result = NONE /\ detailed_result = NONE
RegionIdle    ==
    /\ regions = <<>> /\ merged_once = <<>> /\ merged_twice = <<>> /\ clusters = <<>>
    /\ clip_rect = NoBBox
DocIdle       ==
    doc = <<>> /\ page_num = 0 /\ summary = NONE /\ workers = <<>> /\ calls = 0

(***************************************************************************)
(* UnifiedFigureDetector.detect_once: the four detectors run on the pool's  *)
(* threads in any order; the caller collects the futures in registration    *)
(* order and integrates what it collected.                                  *)
(***************************************************************************)
DetectTexts ==
    { <<>>,
      <<"FIG">>,                                  \* a caption on its own line
      <<"FIG", "SP", "TXT", "NL", "FLOW">>,       \* a caption line and one keyword
      <<"START", "NL", "FLOW">>,                  \* two keywords
      <<"TXT", "FIG", "REF">> }                   \* a reference phrase

DetectImages ==
    SeqsUpTo({[width |-> sz[1], height |-> sz[2], bbox |-> NoBBox] :
                 sz \in {<<400, 300>>, <<100, 400>>}}, MaxImages)

DetectTables ==
    SeqsUpTo({[cell_count |-> 5, bbox |-> NoBBox]}, MaxTables)

DetectPages ==
    { [NoPage EXCEPT !.text = text, !.rects = rects, !.lines = lines,
                     !.curves = curves, !.drawing_count = rects + lines + curves,
                     !.tables = tables, !.images = images] :
        text \in DetectTexts, rects \in 0..MaxRects, lines \in 0..MaxLines,
        curves \in 0..MaxCurves, tables \in DetectTables, images \in DetectImages }

InitDetect ==
    /\ sys = "detect"
    /\ faults = NoFaults
    /\ DocIdle
    /\ config = NONE
    /\ pc = "build"
    /\ page \in DetectPages
    /\ DetectIdle /\ HybridIdle /\ PracticalIdle /\ RegionIdle
    /\ analysis = NONE

\* page_cache = self._build_page_cache(page); page.get_text() is called
\* outside every try block, so its exception leaves detect_once
BuildPageCache ==
    /\ sys = "detect" /\ pc = "build"
    /\ IF "text" \in faults.queries
       THEN pc' = "raised" /\ page_cache' = page_cache
       ELSE pc' = "submit" /\ page_cache' = BuildCacheUnder(page, faults.queries)
    /\ UNCHANGED <<docVars, sys, config, faults, page, futures, results, integrated, hybridVars,
                   practicalVars, analysis, regionVars>>

\* futures[name] = executor.submit(detector.detect, page_cache), for all names
SubmitDetectors ==
    /\ sys = "detect" /\ pc = "submit"
    /\ futures' = [name \in DetectorNames |-> [state |-> "pending", result |-> NoResult]]
    /\ pc' = "collect"
    /\ UNCHANGED <<docVars, sys, config, faults, page, page_cache, results, integrated, hybridVars,
                   practicalVars, analysis, regionVars>>

\* a pool thread completes detector.detect(page_cache), with a result or with
\* an exception; the call of a stuck detector never completes
RunDetector(name) ==
    /\ sys = "detect" /\ pc = "collect"
    /\ futures[name].state = "pending"
    /\ name \notin faults.stuck
    /\ futures' = [futures EXCEPT ![name] =
                      IF name \in faults.raising
                      THEN [state |-> "raised", result |-> NoResult]
                      ELSE [state |-> "done", result |-> Detect(name, page_cache)]]
    /\ UNCHANGED <<docVars, sys, config, faults, pc, page, page_cache, results, integrated, hybridVars,
                   practicalVars, analysis, regionVars>>

\* the names whose future the collecting loop has not yet visited
Uncollected == {name \in DetectorNames : futures[name].state \notin {"collected", "timed_out"}}

\* the names whose detect call still occupies a pool thread
Running == {name \in DetectorNames : futures[name].state \in {"pending", "timed_out"}}

\* the results dict after future.result() of a failed future: as the loop
\* body with the exception escaping the try block, which loses the dict
AfterResultUncaught(collected, name, future) ==
    IF future.state = "done"
    THEN IF future.result # NoResult
         THEN Append(collected, [name |-> name, result |-> future.result])
         ELSE collected
    ELSE <<>>

\* the results dict after the loop body for one future: a truthy result is
\* stored under its name, an exception is printed and nothing is stored
AfterResult(collected, name, future) ==
    IF future.state = "done" /\ future.result # NoResult
    THEN Append(collected, [name |-> name, result |-> future.result])
    ELSE collected

\* one pass of "for name, future in futures.items()": future.result() of the
\* next future in registration order, stored under its name when truthy
CollectResult ==
    /\ sys = "detect" /\ pc = "collect"
    /\ Uncollected # {}
    /\ LET name == CHOOSE n \in Uncollected :
                       \A m \in Uncollected : RegistrationIndex(n) <= RegistrationIndex(m)
       IN  /\ futures[name].state \in {"done", "raised"}
           /\ results' = AfterResult(results, name, futures[name])
           /\ futures' = [futures EXCEPT ![name].state = "collected"]
    /\ UNCHANGED <<docVars, sys, config, faults, pc, page, page_cache, integrated, hybridVars,
                   practicalVars, analysis, regionVars>>

\* integrated_result = self._integrate_results(results); return
Integrate ==
    /\ sys = "detect" /\ pc = "collect"
    /\ Uncollected = {}
    /\ Running = {}       \* leaving the with block joins the pool's threads
    /\ integrated' = IntegrateResults(results)
    /\ pc' = "done"
    /\ UNCHANGED <<docVars, sys, config, faults, page, page_cache, futures, results, hybridVars,
                   practicalVars, analysis, regionVars>>

NextDetect ==
    \/ BuildPageCache
    \/ SubmitDetectors
    \/ \E name \in DetectorNames : RunDetector(name)
    \/ CollectResult
    \/ Integrate

SpecDetect == InitDetect /\ [][NextDetect]_vars


(***************************************************************************)
(* Claims about detect_once and _integrate_results.                         *)
(***************************************************************************)
Range(s) == {s[i] : i \in 1..Len(s)}

\* every order in which the items of a results dict can be presented
Orderings(entries) ==
    {t \in [1..Len(entries) -> Range(entries)] : Range(t) = Range(entries)}

\* the fields of a FigureDetectionResult the claims compare
Verdict(r) ==
    [has_figure |-> r.has_figure, has_table |-> r.has_table,
     has_flowchart |-> r.has_flowchart, has_embedded_image |-> r.has_embedded_image,
     has_diagram |-> r.has_diagram, primary_type |-> r.primary_type,
     confidence |-> r.confidence, complexity |-> r.complexity]

DetectDone == sys = "detect" /\ pc = "done"

\* the detectors that return a candidate for the page
Fired == {name \in DetectorNames : Detect(name, page_cache) # NoResult}

\* name has the highest confidence among the fired candidates and is the
\* first registered among those that share it
IsBestCandidate(name) ==
    /\ name \in Fired
    /\ \A other \in Fired :
          /\ FLeq(Detect(other, page_cache).confidence, Detect(name, page_cache).confidence)
          /\ Detect(other, page_cache).confidence = Detect(name, page_cache).confidence
                => RegistrationIndex(name) <= RegistrationIndex(other)

\* C1: _integrate_results returns the same flags, primary_type, confidence and
\* complexity for every order in which the same candidates are presented to
\* it, also when two candidates have equal confidence.
C1_FusionOrderIndependent ==
    DetectDone =>
        \A order \in Orderings(results) :
            Verdict(IntegrateResults(order)) = Verdict(integrated)

\* C2: the result of detect_once takes primary_type, confidence and complexity
\* from the fired candidate of highest confidence, the first registered one
\* among equals, whatever order the detector threads completed in; with no
\* candidate it is text_only with confidence 0.
C2_PrimaryIsHighestConfidence ==
    DetectDone =>
        IF Fired = {}
        THEN integrated.primary_type = "text_only" /\ integrated.confidence = F_0
        ELSE \E name \in Fired :
                /\ IsBestCandidate(name)
                /\ integrated.primary_type = Detect(name, page_cache).type
                /\ integrated.confidence = Detect(name, page_cache).confidence
                /\ integrated.complexity = Detect(name, page_cache).complexity

\* a finished detect_once in which flowchart and table tie at 0.9 and the
\* flowchart, registered first, is the primary type
C2_Witness ==
    /\ DetectDone
    /\ {"flowchart", "table"} \subseteq Fired
    /\ Detect("flowchart", page_cache).confidence = Detect("table", page_cache).confidence
    /\ "embedded_image" \notin Fired
    /\ integrated.primary_type = "flowchart"


(***************************************************************************)
(* core/region_based_processor.py                                           *)
(***************************************************************************)
RegionMargin     == 10       \* self.region_margin
MinFigureArea    == 5000     \* self.min_figure_area
ClusterThreshold == 50       \* self.cluster_threshold
MaxCoord         == 3        \* bound: coordinates are 0, 50, ..., 50 * MaxCoord
MaxRegions       == 3        \* bound: length of a region list given to the merge

Abs(x) == IF x < 0 THEN -x ELSE x

FigureRegion(bbox, type, confidence, index) ==
    [bbox |-> bbox, type |-> type, confidence |-> confidence,
     page_num |-> 0, index |-> index, caption |-> NONE]

\* FigureRegion.area and _get_bbox_area
BBoxArea(bbox) == Abs((bbox[3] - bbox[1]) * (bbox[4] - bbox[2]))

\* _are_bboxes_close: the distance of the centres is below threshold.  With
\* dx, dy twice the centre differences, sqrt((dx/2)^2 + (dy/2)^2) < threshold
AreBBoxesClose(bbox1, bbox2, threshold) ==
    LET dx == (bbox1[1] + bbox1[3]) - (bbox2[1] + bbox2[3])
        dy == (bbox1[2] + bbox1[4]) - (bbox2[2] + bbox2[4])
    IN  dx * dx + dy * dy < 4 * threshold * threshold

\* the first box kept as it is
MergeBBoxesKeepFirst(bbox1, bbox2) == bbox1

\* _merge_bboxes
MergeBBoxes(bbox1, bbox2) ==
    <<Min2(bbox1[1], bbox2[1]), Min2(bbox1[2], bbox2[2]),
      Max2(bbox1[3], bbox2[3]), Max2(bbox1[4], bbox2[4])>>

\* _do_bboxes_overlap with the test of bbox2 lying left of bbox1 left out
DoBBoxesOverlapOneSided(bbox1, bbox2) ==
    ~(bbox1[3] < bbox2[1] \/ bbox1[4] < bbox2[2] \/ bbox2[4] < bbox1[2])

\* _do_bboxes_overlap
DoBBoxesOverlap(bbox1, bbox2) ==
    ~(bbox1[3] < bbox2[1] \/ bbox2[3] < bbox1[1] \/
      bbox1[4] < bbox2[2] \/ bbox2[4] < bbox1[2])

\* _detect_figure_clusters, the loop over shape_bboxes[1:]: acc holds
\* current_cluster and clusters
RECURSIVE ClusterLoop(_, _)
ClusterLoop(acc, rest) ==
    IF rest = <<>> THEN acc
    ELSE LET bbox == Head(rest)
         IN  IF AreBBoxesClose(acc.current_cluster, bbox, ClusterThreshold)
             THEN ClusterLoop([acc EXCEPT !.current_cluster = MergeBBoxes(@, bbox)],
                              Tail(rest))
             ELSE ClusterLoop(
                      [current_cluster |-> bbox,
                       clusters |-> IF BBoxArea(acc.current_cluster) > MinFigureArea
                                    THEN Append(acc.clusters, acc.current_cluster)
                                    ELSE acc.clusters],
                      Tail(rest))

\* _detect_figure_clusters
DetectFigureClusters(p) ==
    IF p.drawing_count < 3 \/ p.shapes = <<>> THEN <<>>
    ELSE LET acc == ClusterLoop([current_cluster |-> Head(p.shapes), clusters |-> <<>>],
                                Tail(p.shapes))
         IN  IF BBoxArea(acc.current_cluster) > MinFigureArea
             THEN Append(acc.clusters, acc.current_cluster)
             ELSE acc.clusters

\* _merge_overlapping_regions, the inner loop over regions[i+1:]: acc holds
\* merged_bbox, merged_type and used
RECURSIVE MergeInner(_, _, _, _)
MergeInner(rs, i, j, acc) ==
    IF j > Len(rs) THEN acc
    ELSE IF j \in acc.used THEN MergeInner(rs, i, j + 1, acc)
    ELSE IF DoBBoxesOverlap(rs[i].bbox, rs[j].bbox)
         THEN MergeInner(rs, i, j + 1,
                  [merged_bbox |-> MergeBBoxes(acc.merged_bbox, rs[j].bbox),
                   merged_type |-> IF FGreater(rs[j].confidence, rs[i].confidence)
                                   THEN rs[j].type ELSE acc.merged_type,
                   used        |-> acc.used \cup {j}])
         ELSE MergeInner(rs, i, j + 1, acc)

\* _merge_overlapping_regions, the outer loop
RECURSIVE MergeOuter(_, _, _, _)
MergeOuter(rs, i, used, merged) ==
    IF i > Len(rs) THEN merged
    ELSE IF i \in used THEN MergeOuter(rs, i + 1, used, merged)
    ELSE LET acc == MergeInner(rs, i, i + 1,
                        [merged_bbox |-> rs[i].bbox, merged_type |-> rs[i].type,
                         used |-> used])
         IN  MergeOuter(rs, i + 1, acc.used,
                 Append(merged, FigureRegion(acc.merged_bbox, acc.merged_type,
                                             rs[i].confidence, Len(merged))))

\* _merge_overlapping_regions
MergeOverlappingRegions(rs) ==
    IF Len(rs) <= 1 THEN rs ELSE MergeOuter(rs, 1, {}, <<>>)

\* bool(fitz.Rect): false only for the rectangle of four zeros
RectIsTruthy(bbox) == bbox # NoBBox

\* detect_figure_regions, step 1: one region per table
TableRegions(p) ==
    LET idxs == 1..Len(p.tables)
        region(i) == FigureRegion(p.tables[i].bbox, "table", F_09, i - 1)
        keep == {i \in idxs : BBoxArea(p.tables[i].bbox) > MinFigureArea}
    IN  SelectSeq([i \in idxs |-> IF i \in keep THEN region(i) ELSE NoResult],
                  LAMBDA r : r # NoResult)

\* detect_figure_regions, step 2: one region per embedded image
ImageRegions(p) ==
    LET idxs == 1..Len(p.images)
        region(i) == FigureRegion(p.images[i].bbox, "image", F_095, i - 1)
        keep == {i \in idxs : /\ RectIsTruthy(p.images[i].bbox)
                              /\ BBoxArea(p.images[i].bbox) > MinFigureArea}
    IN  SelectSeq([i \in idxs |-> IF i \in keep THEN region(i) ELSE NoResult],
                  LAMBDA r : r # NoResult)

\* detect_figure_regions, step 3: one region per cluster of shapes
ClusterRegions(p) ==
    LET cluster_bboxes == DetectFigureClusters(p)
        idxs == 1..Len(cluster_bboxes)
        keep == {i \in idxs : BBoxArea(cluster_bboxes[i]) > MinFigureArea}
    IN  SelectSeq([i \in idxs |-> IF i \in keep
                                  THEN FigureRegion(cluster_bboxes[i], "figure", F_07, i - 1)
                                  ELSE NoResult],
                  LAMBDA r : r # NoResult)

\* _detect_captions: the text band under a region holds a caption line
DetectCaptions(p, rs) ==
    [i \in 1..Len(rs) |->
        IF rs[i].bbox[4] \in p.captioned_y
        THEN [rs[i] EXCEPT !.caption = "caption"] ELSE rs[i]]

\* detect_figure_regions
DetectFigureRegionsOf(p) ==
    DetectCaptions(p,
        MergeOverlappingRegions(TableRegions(p) \o ImageRegions(p) \o ClusterRegions(p)))


(***************************************************************************)
(* _merge_overlapping_regions as a function of its argument: the lists it   *)
(* is called with are those detect_figure_regions builds, table regions     *)
(* (confidence 0.9) first, then image regions (0.95), then figure clusters  *)
(* (0.7), each of an area above min_figure_area.                            *)
(***************************************************************************)
GridCoords == {50 * k : k \in 0..MaxCoord}

\* boxes of one row of a page, and one box below that row
MergeBoxes ==
    {<<iv[1], 0, iv[2], 150>> : iv \in {v \in GridCoords \X GridCoords : v[1] < v[2]}}
        \cup {<<0, 200, 50 * MaxCoord, 350>>}

RegionKinds == <<"table", "image", "figure">>
KindConfidence(type) ==
    CASE type = "table" -> F_09 [] type = "image" -> F_095 [] type = "figure" -> F_07
KindOrder(type) == CHOOSE i \in 1..3 : RegionKinds[i] = type

\* the index detect_figure_regions gives the i-th region: its position among
\* the regions of its type
IndexInKind(rs, i) == Cardinality({j \in 1..(i - 1) : rs[j].type = rs[i].type})

RegionLists ==
    LET raw == SeqsUpTo({[bbox |-> b, type |-> RegionKinds[k]] :
                            b \in MergeBoxes, k \in 1..3}, MaxRegions)
        ordered == {rs \in raw : \A i \in 1..(Len(rs) - 1) :
                                    KindOrder(rs[i].type) <= KindOrder(rs[i + 1].type)}
    IN  {[i \in 1..Len(rs) |->
             FigureRegion(rs[i].bbox, rs[i].type, KindConfidence(rs[i].type),
                          IndexInKind(rs, i))] : rs \in ordered}

InitMerge ==
    /\ sys = "merge"
    /\ faults = NoFaults
    /\ DocIdle
    /\ config = NONE
    /\ pc = "start"
    /\ page = NoPage
    /\ regions \in RegionLists
    /\ merged_once = <<>> /\ merged_twice = <<>> /\ clusters = <<>> /\ clip_rect = NoBBox
    /\ DetectIdle /\ HybridIdle /\ PracticalIdle
    /\ analysis = NONE

\* regions = self._merge_overlapping_regions(regions)
MergeOnce ==
    /\ sys = "merge" /\ pc = "start"
    /\ merged_once' = MergeOverlappingRegions(regions)
    /\ pc' = "merged"
    /\ UNCHANGED <<docVars, sys, config, faults, page, detectVars, hybridVars, practicalVars, analysis,
                   regions, merged_twice, clusters, clip_rect>>

\* the merge applied to its own output
MergeTwice ==
    /\ sys = "merge" /\ pc = "merged"
    /\ merged_twice' = MergeOverlappingRegions(merged_once)
    /\ pc' = "done"
    /\ UNCHANGED <<docVars, sys, config, faults, page, detectVars, hybridVars, practicalVars, analysis,
                   regions, merged_once, clusters, clip_rect>>

NextMerge == MergeOnce \/ MergeTwice

SpecMerge == InitMerge /\ [][NextMerge]_vars

\* C8: region merging is idempotent: merging the output of
\* _merge_overlapping_regions again gives the same list of regions (bboxes,
\* types, confidences and indices).
C8_MergeIdempotent ==
    (sys = "merge" /\ pc = "done") => merged_twice = merged_once

(***************************************************************************)
(* _do_bboxes_overlap on every pair of boxes over the grid, the inverted    *)
(* and the empty ones included.                                             *)
(***************************************************************************)
AllBoxes == GridCoords \X GridCoords \X GridCoords \X GridCoords

InitOverlap ==
    /\ sys = "overlap"
    /\ faults = NoFaults
    /\ DocIdle
    /\ config = NONE
    /\ pc = "start"
    /\ page = NoPage
    /\ \E a \in AllBoxes, b \in AllBoxes :
           regions = <<FigureRegion(a, "table", F_09, 0), FigureRegion(b, "image", F_095, 0)>>
    /\ merged_once = <<>> /\ merged_twice = <<>> /\ clusters = <<>> /\ clip_rect = NoBBox
    /\ DetectIdle /\ HybridIdle /\ PracticalIdle
    /\ analysis = NONE

\* self._do_bboxes_overlap called with the two boxes in both orders
TestOverlap ==
    /\ sys = "overlap" /\ pc = "start"
    /\ analysis' = [forward  |-> DoBBoxesOverlap(regions[1].bbox, regions[2].bbox),
                    backward |-> DoBBoxesOverlap(regions[2].bbox, regions[1].bbox)]
    /\ pc' = "done"
    /\ UNCHANGED <<docVars, sys, config, faults, page, detectVars, hybridVars, practicalVars, regionVars>>

NextOverlap == TestOverlap

SpecOverlap == InitOverlap /\ [][NextOverlap]_vars

\* C9: the overlap test is symmetric: _do_bboxes_overlap(A, B) equals
\* _do_bboxes_overlap(B, A) for all pairs of boxes, degenerate and touching
\* ones included.
C9_OverlapSymmetric ==
    (sys = "overlap" /\ pc = "done") => analysis.forward = analysis.backward

\* both orders tested on a pair that touches along an edge, one box empty;
\* the test says they overlap
C9_Witness ==
    /\ sys = "overlap" /\ pc = "done"
    /\ regions[1].bbox[3] = regions[2].bbox[1]
    /\ regions[2].bbox[1] = regions[2].bbox[3]
    /\ regions[1].bbox[1] < regions[1].bbox[3]
    /\ analysis.forward /\ analysis.backward


(***************************************************************************)
(* core/hybrid_processor.py: HybridProcessor.analyze_page_content, and      *)
(* detect_figure_regions, which HybridProcessor inherits, on the same page. *)
(***************************************************************************)
HybridImageMinSize == 100      \* "if width > 100 and height > 100"

\* _detect_embedded_images
DetectEmbeddedImages(p) ==
    LET idxs == 1..Len(p.images)
        keep == {i \in idxs : /\ p.images[i].width > HybridImageMinSize
                              /\ p.images[i].height > HybridImageMinSize
                              /\ RectIsTruthy(p.images[i].bbox)}
    IN  SelectSeq([i \in idxs |-> IF i \in keep
                                  THEN FigureRegion(p.images[i].bbox, "image", F_095, i - 1)
                                  ELSE NoResult],
                  LAMBDA r : r # NoResult)

\* any(re.search(kw, text) for kw in figure_keywords): of the twelve patterns
\* r'図\s*\d+' matches a figure number and r'フロー' the keyword "フロー図"
HasFigureText(text) == Contains(text, "FIG") \/ Contains(text, "FLOW")

\* step 4 of analyze_page_content with the branch for tables or figures
\* without images taken whether or not there are images
ChooseMethodIgnoringImages(embedded_images, has_tables, has_figures) ==
    IF embedded_images = <<>> /\ ~has_tables /\ ~has_figures
    THEN [method |-> "text_only", confidence |-> F_095]
    ELSE IF embedded_images # <<>> /\ ~has_tables /\ ~has_figures
    THEN [method |-> "extract_images", confidence |-> F_09]
    ELSE IF has_tables \/ has_figures
    THEN [method |-> "full_page", confidence |-> F_085]
    ELSE [method |-> "hybrid", confidence |-> F_08]

\* step 4 of analyze_page_content: the if / elif chain over the three signals
ChooseMethod(embedded_images, has_tables, has_figures) ==
    IF embedded_images = <<>> /\ ~has_tables /\ ~has_figures
    THEN [method |-> "text_only", confidence |-> F_095]
    ELSE IF embedded_images # <<>> /\ ~has_tables /\ ~has_figures
    THEN [method |-> "extract_images", confidence |-> F_09]
    ELSE IF (has_tables \/ has_figures) /\ embedded_images = <<>>
    THEN [method |-> "full_page", confidence |-> F_085]
    ELSE [method |-> "hybrid", confidence |-> F_08]

\* analyze_page_content
AnalyzePageContentOf(p) ==
    LET embedded_images == DetectEmbeddedImages(p)
        has_tables      == Len(p.tables) > 0
        has_figures     == HasFigureText(p.text)
        chosen          == ChooseMethod(embedded_images, has_tables, has_figures)
    IN  [method          |-> chosen.method,
         embedded_images |-> embedded_images,
         has_tables      |-> has_tables,
         has_figures     |-> has_figures,
         confidence      |-> chosen.confidence]

HybridTexts ==
    { <<>>,
      <<"TXT">>,
      <<"FIG", "REF">>,                  \* "図1-1の通り"
      <<"TXT", "FIG", "REF", "TXT">>,    \* a reference phrase inside a sentence
      <<"FIG", "SP", "TXT">>,            \* a caption line
      <<"FLOW">>,
      <<"START", "NL", "STEP">> }

HybridTables ==
    SeqsUpTo({[cell_count |-> 5, bbox |-> <<0, 0, 100, 150>>],
              [cell_count |-> 35, bbox |-> <<0, 0, 50, 50>>]}, MaxTables)

HybridImages ==
    SeqsUpTo({[width |-> sz[1], height |-> sz[2], bbox |-> b] :
                 sz \in {<<400, 300>>, <<100, 400>>},
                 b \in {NoBBox, <<0, 0, 50, 50>>, <<0, 0, 400, 300>>}}, MaxImages)

\* no drawings, or three drawings whose line items lie close together
HybridShapes == {<<>>, <<<<0, 0, 50, 50>>, <<0, 0, 100, 100>>, <<50, 50, 100, 100>>>>}

HybridPages ==
    { [NoPage EXCEPT !.text = text, !.tables = tables, !.images = images,
                     !.shapes = shapes, !.drawing_count = Len(shapes),
                     !.captioned_y = captioned] :
        text \in HybridTexts, tables \in HybridTables, images \in HybridImages,
        shapes \in HybridShapes, captioned \in {{}, {300}} }

InitHybrid ==
    /\ sys = "hybrid"
    /\ faults = NoFaults
    /\ DocIdle
    /\ config = NONE
    /\ pc = "start"
    /\ page \in HybridPages
    /\ DetectIdle /\ HybridIdle /\ PracticalIdle /\ RegionIdle
    /\ analysis = NONE

\* decision = self.analyze_page_content(page, page_num)
AnalyzePageContent ==
    /\ sys = "hybrid" /\ pc = "start"
    /\ decision' = AnalyzePageContentOf(page)
    /\ pc' = "analyzed"
    /\ UNCHANGED <<docVars, sys, config, faults, page, detectVars, practicalVars, analysis, regionVars>>

\* regions = self.detect_figure_regions(page, page_num)
DetectFigureRegions ==
    /\ sys = "hybrid" /\ pc = "analyzed"
    /\ regions' = DetectFigureRegionsOf(page)
    /\ pc' = "done"
    /\ UNCHANGED <<docVars, sys, config, faults, page, detectVars, hybridVars, practicalVars, analysis,
                   merged_once, merged_twice, clusters, clip_rect>>

NextHybrid == AnalyzePageContent \/ DetectFigureRegions

SpecHybrid == InitHybrid /\ [][NextHybrid]_vars

\* C3: the method analyze_page_content chooses is a total function of
\* E = "at least one embedded image region" and V = "has_tables or
\* has_figures": neither gives text_only, E alone extract_images, V alone
\* full_page, both hybrid.
C3_MethodDecisionTable ==
    (sys = "hybrid" /\ pc # "start") =>
        LET E == decision.embedded_images # <<>>
            V == decision.has_tables \/ decision.has_figures
        IN  /\ (~E /\ ~V) => decision.method = "text_only"
            /\ (E /\ ~V)  => decision.method = "extract_images"
            /\ (~E /\ V)  => decision.method = "full_page"
            /\ (E /\ V)   => decision.method = "hybrid"

\* a page with an embedded image region and a table, decided hybrid
C3_Witness ==
    /\ sys = "hybrid" /\ pc # "start"
    /\ decision.embedded_images # <<>>
    /\ decision.has_tables /\ ~decision.has_figures
    /\ decision.method = "hybrid"

\* C6: a page with exactly one embedded image of 400x300, no tables and no
\* shape primitives gets method extract_images, and its region list holds
\* exactly one FigureRegion, of type image.
C6_EmbeddedImageOnlyPage ==
    ( /\ sys = "hybrid" /\ pc = "done"
      /\ Len(page.images) = 1
      /\ page.images[1] = [width |-> 400, height |-> 300, bbox |-> <<0, 0, 400, 300>>]
      /\ page.tables = <<>>
      /\ page.drawing_count = 0 )
    => /\ decision.method = "extract_images"
       /\ Len(regions) = 1
       /\ regions[1].type = "image"


(***************************************************************************)
(* core/practical_optimizer.py: PracticalPageAnalyzer                       *)
(***************************************************************************)
QuickTextDensityThreshold == 80     \* quick_text_density_threshold, in percent
QuickImageSizeThreshold == 50000    \* quick_image_size_threshold
MinFlowNodes == 3                   \* min_flow_nodes
ComplexTableCellThreshold == 20     \* complex_table_cell_threshold
RecheckTextDensity == 70            \* "features['text_density'] > 0.7", in percent
SignificantImageSize == 100         \* "if width > 100 and height > 100"

\* PracticalConfig.__post_init__: skip_page_patterns defaults to []
DefaultConfig == [skip_page_patterns |-> <<>>]

\* self.stats of PracticalPageAnalyzer.__init__
InitialStats ==
    [analyzed_pages |-> 0, text_pages |-> 0, figure_pages |-> 0, skipped_pages |-> 0]

\* for pattern in self.config.skip_page_patterns: if pattern in text[:200]
MatchingSkipPatterns(text, cfg) ==
    SelectSeq(cfg.skip_page_patterns, LAMBDA pattern : Contains(text, pattern))

\* [pix for pix in images if pix.width * pix.height > quick_image_size_threshold]
LargeImages(images) ==
    SelectSeq(images, LAMBDA img : img.width * img.height > QuickImageSizeThreshold)

\* any(kw in text for kw in force_image_keywords)
HasForceKeywords(text) == Contains(text, "FLOW")

\* actual_figure: a figure number, no reference phrase anywhere in the text,
\* and one of the positional patterns
ActualFigure(text) ==
    /\ MatchesFigureNumber(text)
    /\ ~MatchesReference(text)
    /\ MatchesCaptionPosition(text)

\* _quick_screening
QuickScreening(p, cfg) ==
    LET matching == MatchingSkipPatterns(p.text, cfg)
        large_images == LargeImages(p.images)
        has_force_keywords == HasForceKeywords(p.text)
        actual_figure == ActualFigure(p.text)
        is_pure_text == /\ p.text_density > QuickTextDensityThreshold
                        /\ Len(large_images) = 0
                        /\ ~has_force_keywords
                        /\ ~actual_figure
    IN  IF matching # <<>>
        THEN [skip |-> TRUE, reason |-> Head(matching)]
        ELSE [skip         |-> FALSE,
              is_pure_text |-> is_pure_text,
              confidence   |-> IF is_pure_text THEN F_09 ELSE F_05,
              features     |-> [text_density         |-> p.text_density,
                                large_images_count   |-> Len(large_images),
                                has_force_keywords   |-> has_force_keywords,
                                has_figure_number    |-> MatchesFigureNumber(p.text),
                                has_figure_reference |-> MatchesReference(p.text),
                                actual_figure        |-> actual_figure]]

\* _detailed_analysis; arrow_patterns and has_number_list, which no rule of
\* _determine_processing reads, are left out
DetailedAnalysis(p) ==
    LET significant_images ==
            Len(SelectSeq(p.images, LAMBDA img : /\ img.width > SignificantImageSize
                                                 /\ img.height > SignificantImageSize))
    IN  [table_count        |-> Len(p.tables),
         total_cells        |-> SumSeq([i \in 1..Len(p.tables) |-> p.tables[i].cell_count]),
         rect_count         |-> p.rects,
         line_count         |-> p.lines,
         curve_count        |-> p.curves,
         has_step_pattern   |-> Contains(p.text, "STEP"),
         has_arrow_text     |-> Contains(p.text, "ARROWS"),
         has_visual_element |-> \/ p.rects > 0
                                \/ p.lines > 0
                                \/ Len(p.tables) > 0
                                \/ significant_images > 0,
         significant_images |-> significant_images]

Processing(page_type, method, confidence) ==
    [page_type |-> page_type, processing_method |-> method, confidence |-> confidence]

\* the first rule of _determine_processing: a figure number on a page without
\* has_visual_element is treated as a reference
DowngradedToReference(quick, detailed) ==
    ~detailed.has_visual_element /\ quick.features.has_figure_number

\* the rules of _determine_processing after the first one, in order
LaterRules(quick, detailed) ==
    LET features == quick.features
    IN  IF features.actual_figure /\ detailed.has_visual_element
        THEN IF detailed.table_count > 0
             THEN Processing("complex_table", "image_gemini", F_085)
             ELSE IF detailed.rect_count > 0 \/ features.large_images_count > 0
             THEN Processing("flowchart", "image_ml", F_08)
             ELSE Processing("diagram", "image_ml", F_075)
        ELSE IF /\ features.text_density > RecheckTextDensity
                /\ detailed.table_count = 0
                /\ detailed.rect_count < 2
        THEN Processing("pure_text", "text_only", F_09)
        ELSE IF detailed.table_count > 0
        THEN IF detailed.total_cells > ComplexTableCellThreshold
             THEN Processing("complex_table", "image_gemini", F_085)
             ELSE Processing("simple_table", "structured", F_08)
        ELSE IF /\ detailed.rect_count >= MinFlowNodes
                /\ (detailed.has_step_pattern \/ detailed.line_count > 5)
        THEN Processing("flowchart", "image_ml", F_075)
        ELSE IF features.large_images_count > 0
        THEN Processing("diagram", "image_ml", F_08)
        ELSE IF detailed.rect_count > 0 \/ detailed.line_count > 10
        THEN Processing("mixed", "hybrid", F_06)
        ELSE Processing("pure_text", "text_only", F_05)

\* _determine_processing: the first rule that applies decides
DetermineProcessing(quick, detailed) ==
    IF DowngradedToReference(quick, detailed)
    THEN Processing("pure_text", "text_only", F_09)
    ELSE LaterRules(quick, detailed)

\* _estimate_cost with the default costs 0.1, 0.3 and 1.0
EstimateCost(method) ==
    CASE method = "text_only"    -> F_01
      [] method = "structured"   -> F_03
      [] method = "image_gemini" -> F_1
      [] method = "image_ml"     -> F_15
      [] method = "hybrid"       -> F_077

\* the dict analyze_page returns
AnalyzePageOf(quick, detailed) ==
    IF quick.skip
    THEN [page_type |-> "pure_text", processing_method |-> "text_only",
          confidence |-> F_1, skip |-> TRUE, reason |-> quick.reason]
    ELSE IF quick.is_pure_text
    THEN [page_type |-> "pure_text", processing_method |-> "text_only",
          confidence |-> quick.confidence, skip |-> FALSE,
          features |-> quick.features]
    ELSE LET chosen == DetermineProcessing(quick, detailed)
         IN  [page_type |-> chosen.page_type,
              processing_method |-> chosen.processing_method,
              confidence |-> chosen.confidence, skip |-> FALSE,
              features |-> quick.features, detailed |-> detailed,
              cost_estimate |-> EstimateCost(chosen.processing_method)]

\* the counters analyze_page increments
CountPage(st, quick, result) ==
    [analyzed_pages |-> st.analyzed_pages + 1,
     skipped_pages  |-> st.skipped_pages + (IF quick.skip THEN 1 ELSE 0),
     text_pages     |-> st.text_pages
                        + (IF ~quick.skip /\ result.page_type = "pure_text" THEN 1 ELSE 0),
     figure_pages   |-> st.figure_pages
                        + (IF ~quick.skip /\ result.page_type # "pure_text" THEN 1 ELSE 0)]

PracticalTexts ==
    { <<>>,
      <<"TXT">>,
      <<"TOC", "NL", "TXT">>,
      <<"FIG", "REF">>,                              \* "図1-1の通り"
      <<"TXT", "FIG", "REF", "TXT">>,
      <<"TXT", "FIG", "TXT">>,                       \* a figure number inside a sentence
      <<"FIG", "SP", "TXT">>,                        \* a caption line
      <<"TXT", "NL", "FIG", "NL", "TXT">>,           \* a figure number on its own line
      <<"FIG", "SP", "TXT", "NL", "FIG", "REF">>,    \* a caption and a reference to it
      <<"FLOW">>,
      <<"STEP", "TXT">> }

PracticalDensities == {0, 75, 90}

PracticalLines == {0, 6, 11}

PracticalTables ==
    SeqsUpTo({[cell_count |-> 5, bbox |-> <<0, 0, 100, 150>>],
              [cell_count |-> 35, bbox |-> <<0, 0, 100, 150>>]}, MaxTables)

PracticalImages ==
    SeqsUpTo({[width |-> sz[1], height |-> sz[2], bbox |-> <<0, 0, 50, 50>>] :
                 sz \in ImageSizes}, MaxImages)

PracticalPages ==
    { [NoPage EXCEPT !.text = text, !.text_density = density, !.rects = rects,
                     !.lines = lines, !.curves = curves,
                     !.drawing_count = rects + lines + curves,
                     !.tables = tables, !.images = images] :
        text \in PracticalTexts, density \in PracticalDensities,
        rects \in 0..MaxRects, lines \in PracticalLines, curves \in 0..MaxCurves,
        tables \in PracticalTables, images \in PracticalImages }

PracticalConfigs == {DefaultConfig, [skip_page_patterns |-> <<"TOC">>]}

InitPractical ==
    /\ sys = "practical"
    /\ faults = NoFaults
    /\ DocIdle
    /\ config \in PracticalConfigs
    /\ pc = "start"
    /\ page \in PracticalPages
    /\ DetectIdle /\ HybridIdle /\ RegionIdle
    /\ stats = InitialStats
    /\ quick_result = NONE
    /\ detailed_result = NONE
    /\ analysis = NONE

\* analyzer.analyze_page(page, page_num)
AnalyzePage ==
    /\ sys = "practical" /\ pc = "start"
    /\ LET quick    == QuickScreening(page, config)
           ran      == ~quick.skip /\ ~quick.is_pure_text
           detailed == IF ran THEN DetailedAnalysis(page) ELSE NONE
           result   == AnalyzePageOf(quick, detailed)
       IN  /\ quick_result' = quick
           /\ detailed_result' = detailed
           /\ analysis' = result
           /\ stats' = CountPage(stats, quick, result)
    /\ pc' = "analyzed"
    /\ UNCHANGED <<docVars, sys, config, faults, page, detectVars, hybridVars, regionVars>>

NextPractical == AnalyzePage

SpecPractical == InitPractical /\ [][NextPractical]_vars

\* C7: analyze_page sends every page that has a table with no more cells
\* than complex_table_cell_threshold to simple_table / structured, and every
\* page whose tables have more cells to complex_table / image_gemini,
\* whatever the text density and the caption signals of the page are.
C7_TableComplexitySplit ==
    (sys = "practical" /\ pc = "analyzed" /\ ~quick_result.skip /\ page.tables # <<>>) =>
        LET total_cells == SumSeq([i \in 1..Len(page.tables) |-> page.tables[i].cell_count])
        IN  IF total_cells > ComplexTableCellThreshold
            THEN /\ analysis.page_type = "complex_table"
                 /\ analysis.processing_method = "image_gemini"
            ELSE /\ analysis.page_type = "simple_table"
                 /\ analysis.processing_method = "structured"


(***************************************************************************)
(* core/smart_page_analyzer.py: SmartPageAnalyzer.analyze_page_content      *)
(***************************************************************************)
SmartMinRectsForDiagram == 5        \* detection_config['min_rects_for_diagram']
SmartMinLinesForDiagram == 4        \* detection_config['min_lines_for_diagram']
SmartMinArrowsForFlowchart == 2     \* detection_config['min_arrows_for_flowchart']
SmartMinCombinedShapes == 8         \* detection_config['min_combined_shapes']
SmartEmbeddedImageMinSize == 100    \* detection_config['embedded_image_min_size']
FlowchartConfidenceBoost == 20      \* detection_config['flowchart_confidence_boost']
LowTextRatio == 50                  \* "result['text_ratio'] < 0.5", in percent
MaxConfidence == 100                \* "min(result['confidence'], 100)"

\* _detect_arrow_patterns
SmartArrowPatterns(line_count) == IF line_count >= 2 THEN line_count \div 3 ELSE 0

\* [keyword for keyword in self.figure_keywords if keyword in text]: '図' is in
\* "図1-1" and "フロー図", 'フロー' in "フロー図", 'STEP' in "STEP1", '→' in "→→→"
SmartDetectedKeywords(text) ==
    {tok \in {"FIG", "FLOW", "START", "STEP", "ARROWS"} : Contains(text, tok)}

\* len(pattern.findall(text)) for a pattern that matches tok `each` times
CountMatches(text, tok, each) ==
    each * Cardinality({i \in 1..Len(text) : text[i] = tok})

\* the confidence added for the drawings of the page
ShapeScore(rect_count, line_count, curve_count) ==
    LET arrow_count  == SmartArrowPatterns(line_count)
        total_shapes == rect_count + line_count + curve_count
    IN  IF rect_count >= 3 /\ arrow_count >= SmartMinArrowsForFlowchart
        THEN [kind |-> "flowchart", score |-> 60 + FlowchartConfidenceBoost,
              complexity |-> "complex"]
        ELSE IF \/ rect_count >= SmartMinRectsForDiagram
                \/ line_count >= SmartMinLinesForDiagram
        THEN [kind |-> "diagram", score |-> 40, complexity |-> "medium"]
        ELSE IF total_shapes >= SmartMinCombinedShapes
        THEN [kind |-> "diagram", score |-> 35, complexity |-> "medium"]
        ELSE [kind |-> "none", score |-> 0, complexity |-> "simple"]

\* step 8 left out: the sum of the scores as it is
NormalizeUnbounded(confidence) == confidence

\* step 8: result['confidence'] = min(result['confidence'], 100)
Normalize(confidence) == Min2(confidence, MaxConfidence)

\* analyze_page_content
SmartAnalyzeOf(p) ==
    LET has_table     == Len(p.tables) > 0
        shape         == ShapeScore(p.rects, p.lines, p.curves)
        keywords      == SmartDetectedKeywords(p.text) # {}
        low_text      == p.text_density < LowTextRatio
        step_matches  == CountMatches(p.text, "STEP", 1)
        arrow_matches == CountMatches(p.text, "ARROWS", 3)
        significant   == SignificantImages(p.images, SmartEmbeddedImageMinSize) # <<>>
        confidence    == (IF has_table THEN 30 ELSE 0)
                         + shape.score
                         + (IF keywords THEN 20 ELSE 0)
                         + (IF p.spread THEN 20 ELSE 0)
                         + (IF low_text THEN 15 ELSE 0)
                         + (IF step_matches >= 3 THEN 30 ELSE 0)
                         + (IF arrow_matches >= 3 THEN 20 ELSE 0)
                         + (IF significant THEN 50 ELSE 0)
    IN  [has_table          |-> has_table,
         has_figure         |-> \/ shape.kind # "none"
                                \/ keywords
                                \/ low_text
                                \/ step_matches >= 3
                                \/ arrow_matches >= 3
                                \/ significant,
         has_flowchart      |-> shape.kind = "flowchart",
         has_embedded_image |-> significant,
         has_diagram        |-> shape.kind = "diagram",
         has_complex_layout |-> p.spread,
         text_ratio         |-> p.text_density,
         confidence         |-> Normalize(confidence),
         figure_complexity  |-> shape.complexity]

SmartTexts ==
    { <<>>,
      <<"TXT">>,
      <<"FIG", "REF">>,                  \* "図1-1の通り"
      <<"TXT", "FIG", "REF", "TXT">>,
      <<"FIG", "SP", "TXT">>,
      <<"STEP", "NL", "STEP", "NL", "STEP">>,
      <<"STEP", "ARROWS", "STEP", "ARROWS", "STEP">> }

SmartDensities == {40, 90}

SmartLines == {0, 3, 4, 6}

SmartCurves == {0, 2}

SmartTables == SeqsUpTo({[cell_count |-> 5, bbox |-> NoBBox]}, MaxTables)

SmartImages ==
    SeqsUpTo({[width |-> sz[1], height |-> sz[2], bbox |-> NoBBox] :
                 sz \in {<<400, 300>>, <<100, 400>>}}, MaxImages)

SmartPages ==
    { [NoPage EXCEPT !.text = text, !.text_density = density, !.spread = spread,
                     !.rects = rects, !.lines = lines, !.curves = curves,
                     !.drawing_count = rects + lines + curves,
                     !.tables = tables, !.images = images] :
        text \in SmartTexts, density \in SmartDensities, spread \in BOOLEAN,
        rects \in 0..MaxRects, lines \in SmartLines, curves \in SmartCurves,
        tables \in SmartTables, images \in SmartImages }

InitSmart ==
    /\ sys = "smart"
    /\ faults = NoFaults
    /\ DocIdle
    /\ config = NONE
    /\ pc = "start"
    /\ page \in SmartPages
    /\ DetectIdle /\ HybridIdle /\ PracticalIdle /\ RegionIdle
    /\ analysis = NONE

\* analyzer.analyze_page_content(page)
SmartAnalyzePageContent ==
    /\ sys = "smart" /\ pc = "start"
    /\ analysis' = SmartAnalyzeOf(page)
    /\ pc' = "analyzed"
    /\ UNCHANGED <<docVars, sys, config, faults, page, detectVars, hybridVars, practicalVars, regionVars>>

NextSmart == SmartAnalyzePageContent

SpecSmart == InitSmart /\ [][NextSmart]_vars

(***************************************************************************)
(* The three page analyzers, each on its own pages.                         *)
(***************************************************************************)
InitAnalyzers == InitHybrid \/ InitPractical \/ InitSmart

NextAnalyzers == NextHybrid \/ NextPractical \/ NextSmart

SpecAnalyzers == InitAnalyzers /\ [][NextAnalyzers]_vars

\* a page whose text has a figure number only inside a reference phrase and
\* ordinary words, and that has no drawings, tables or images
ReferenceOnlyPage ==
    /\ OnlyInsideReference(page.text)
    /\ Range(page.text) \subseteq {"FIG", "REF", "TXT", "SP", "NL"}
    /\ page.drawing_count = 0 /\ page.rects = 0 /\ page.lines = 0 /\ page.curves = 0
    /\ page.tables = <<>>
    /\ page.images = <<>>

\* C4: a page whose text contains a figure number only inside a reference
\* phrase, with no shape primitives, tables or images, is classified with
\* has_figure false and gets method text_only by HybridProcessor,
\* PracticalPageAnalyzer and SmartPageAnalyzer alike.
C4_ReferenceIsNotAFigure ==
    ReferenceOnlyPage =>
        /\ (sys = "hybrid" /\ pc # "start") =>
               ~decision.has_figures /\ decision.method = "text_only"
        /\ (sys = "practical" /\ pc = "analyzed") =>
               /\ ~quick_result.features.actual_figure
               /\ analysis.page_type = "pure_text"
               /\ analysis.processing_method = "text_only"
        /\ (sys = "smart" /\ pc = "analyzed") => ~analysis.has_figure

(***************************************************************************)
(* The producers of confidences: the detectors with their fusion, and       *)
(* SmartPageAnalyzer.                                                       *)
(***************************************************************************)
InitConfidence == InitDetect \/ InitSmart

NextConfidence == NextDetect \/ NextSmart

SpecConfidence == InitConfidence /\ [][NextConfidence]_vars

UnitInterval(x) == FLeq(F_0, x) /\ FLeq(x, F_1)

\* C10: every DetectionResult of a detector and every FigureDetectionResult
\* of the fusion has a confidence in [0, 1.0], and every result of
\* SmartPageAnalyzer.analyze_page_content has a confidence in [0, 100].
C10_ConfidenceBounds ==
    /\ sys = "detect" =>
          /\ \A name \in DOMAIN futures :
                 futures[name].result # NoResult =>
                     UnitInterval(futures[name].result.confidence)
          /\ \A i \in 1..Len(results) : UnitInterval(results[i].result.confidence)
          /\ pc = "done" => UnitInterval(integrated.confidence)
    /\ (sys = "smart" /\ pc = "analyzed") =>
          analysis.confidence >= 0 /\ analysis.confidence <= MaxConfidence

\* a page whose scores add up to more than 100, reported with confidence 100
C10_Witness ==
    /\ sys = "smart" /\ pc = "analyzed"
    /\ analysis.has_flowchart /\ analysis.has_table /\ analysis.has_embedded_image
    /\ analysis.confidence = MaxConfidence

\* C5: for a page whose text has a figure caption on its own line and whose
\* drawings have at least 3 rectangles and lines for at least 2 estimated
\* arrows, detect_once reports has_figure and primary_type flowchart, with or
\* without a significant embedded image on the page.
C5_CaptionedFlowchartIsPrimary ==
    ( /\ DetectDone
      /\ CaptionOnOwnLine(page.text)
      /\ page.rects >= MinRectsForFlowchart
      /\ DetectArrows(page_cache) >= MinArrowsForFlowchart
      /\ page.tables = <<>> )
    => /\ integrated.has_figure
       /\ integrated.primary_type = "flowchart"


(***************************************************************************)
(* RegionBasedProcessor.detect_figure_regions on pages whose tables and     *)
(* images have bboxes of every shape: regular, below min_figure_area, of    *)
(* zero area, and inverted in x, in y or in both.                           *)
(***************************************************************************)
RegionBBoxes ==
    { <<0, 0, 100, 150>>,       \* regular, area 15000
      <<50, 50, 150, 150>>,     \* regular, area 10000, overlaps the first
      <<0, 0, 50, 50>>,         \* regular, area 2500
      <<50, 0, 50, 150>>,       \* zero width
      <<0, 0, 0, 0>>,           \* four zeros
      <<150, 0, 0, 150>>,       \* x1 < x0, |area| 22500
      <<0, 150, 100, 0>>,       \* y1 < y0, |area| 15000
      <<150, 150, 0, 0>> }      \* both, |area| 22500

RegionTables ==
    SeqsUpTo({[cell_count |-> 5, bbox |-> b] : b \in RegionBBoxes}, MaxTables)

RegionImages ==
    SeqsUpTo({[width |-> 400, height |-> 300, bbox |-> b] : b \in RegionBBoxes}, MaxImages)

RegionPages ==
    { [NoPage EXCEPT !.tables = tables, !.images = images,
                     !.shapes = shapes, !.drawing_count = Len(shapes),
                     !.captioned_y = captioned] :
        tables \in RegionTables, images \in RegionImages,
        shapes \in HybridShapes, captioned \in {{}, {150}} }

\* the list detect_figure_regions hands to _merge_overlapping_regions
CandidateRegions(p) == TableRegions(p) \o ImageRegions(p) \o ClusterRegions(p)

InitRegions ==
    /\ sys = "regions"
    /\ faults = NoFaults
    /\ DocIdle
    /\ config = NONE
    /\ pc = "start"
    /\ page \in RegionPages
    /\ DetectIdle /\ HybridIdle /\ PracticalIdle /\ RegionIdle
    /\ analysis = NONE

\* regions = processor.detect_figure_regions(page, page_num)
DetectRegions ==
    /\ sys = "regions" /\ pc = "start"
    /\ regions' = DetectFigureRegionsOf(page)
    /\ pc' = "done"
    /\ UNCHANGED <<docVars, sys, config, faults, page, detectVars, hybridVars, practicalVars,
                   analysis, merged_once, merged_twice, clusters, clip_rect>>

NextRegions == DetectRegions

SpecRegions == InitRegions /\ [][NextRegions]_vars

IsInverted(bbox) == bbox[3] < bbox[1] \/ bbox[4] < bbox[2]

WellSized(rs) ==
    \A i \in 1..Len(rs) : /\ BBoxArea(rs[i].bbox) > 0
                          /\ BBoxArea(rs[i].bbox) >= MinFigureArea

\* C11: every FigureRegion retained for a page -- in the list of
\* detect_figure_regions before and after merging, and in the embedded_images
\* of the decision of analyze_page_content -- has a strictly positive area of
\* at least min_figure_area.
C11_RetainedRegionsHaveMinimumArea ==
    (sys = "hybrid" /\ pc # "start") =>
        /\ WellSized(decision.embedded_images)
        /\ pc = "done" => WellSized(CandidateRegions(page)) /\ WellSized(regions)

\* C12: a table or image whose bbox has zero area or is inverted never
\* appears in the list detect_figure_regions returns: every returned region
\* has x0 <= x1 and y0 <= y1 and a bbox of non-zero area.
C12_DegenerateBBoxesDropped ==
    (sys = "regions" /\ pc = "done") =>
        \A i \in 1..Len(regions) :
            /\ ~IsInverted(regions[i].bbox)
            /\ BBoxArea(regions[i].bbox) # 0


(***************************************************************************)
(* detect_once when something goes wrong: queries of _build_page_cache that *)
(* raise, a detector that raises, a detector whose detect call never        *)
(* returns.  A detector that is not stuck completes within the timeout of   *)
(* future.result().                                                         *)
(***************************************************************************)
Queries == {"text", "drawings", "tables", "images"}

FaultSets ==
    {[queries |-> q, raising |-> {}, stuck |-> {}] : q \in SUBSET Queries}
    \cup {[queries |-> {}, raising |-> {r}, stuck |-> {}] : r \in DetectorNames}
    \cup {[queries |-> {}, raising |-> r, stuck |-> {st}] :
             r \in {{}, {"table"}}, st \in DetectorNames \ {"table"}}

FaultTexts == {<<>>, <<"START", "NL", "FLOW">>}

FaultImages ==
    SeqsUpTo({[width |-> 400, height |-> 300, bbox |-> NoBBox]}, MaxImages)

FaultPages ==
    { [NoPage EXCEPT !.text = text, !.rects = rects, !.lines = lines,
                     !.drawing_count = rects + lines,
                     !.tables = tables, !.images = images] :
        text \in FaultTexts, rects \in {0, MaxRects}, lines \in {0, 6, 9},
        tables \in DetectTables, images \in FaultImages }

InitDetectFaults ==
    /\ sys = "detect"
    /\ faults \in FaultSets
    /\ DocIdle
    /\ config = NONE
    /\ pc = "build"
    /\ page \in FaultPages
    /\ DetectIdle /\ HybridIdle /\ PracticalIdle /\ RegionIdle
    /\ analysis = NONE

\* future.result(timeout=1.0) raises TimeoutError for a future whose detector
\* is stuck; the except clause prints it, and the thread goes on running
ResultTimesOut ==
    /\ sys = "detect" /\ pc = "collect"
    /\ Uncollected # {}
    /\ LET name == CHOOSE n \in Uncollected :
                       \A m \in Uncollected : RegistrationIndex(n) <= RegistrationIndex(m)
       IN  /\ futures[name].state = "pending"
           /\ name \in faults.stuck
           /\ futures' = [futures EXCEPT ![name].state = "timed_out"]
    /\ UNCHANGED <<docVars, sys, config, faults, pc, page, page_cache, results, integrated,
                   hybridVars, practicalVars, analysis, regionVars>>

NextDetectFaults == NextDetect \/ ResultTimesOut

SpecDetectFaults == InitDetectFaults /\ [][NextDetectFaults]_vars

\* detect_once on a page without drawings, with no fault or with one detector
\* stuck; every step detect_once can take is eventually taken
InitDetectStuck ==
    /\ InitDetectFaults
    /\ faults.queries = {} /\ faults.raising = {}
    /\ page.text = <<>> /\ page.rects = 0 /\ page.lines = 0

SpecDetectStuck ==
    InitDetectStuck /\ [][NextDetectFaults]_vars /\ WF_vars(NextDetectFaults)

\* C13: _build_page_cache never aborts: whichever of the four queries fails,
\* it returns a cache in which only the failed signals are empty and the
\* others hold what their queries returned.
C13_PageCacheNeverAborts ==
    sys = "detect" =>
        /\ pc # "raised"
        /\ pc \notin {"build", "raised"} =>
               LET full == BuildCache(page)
               IN  /\ page_cache.text = (IF "text" \in faults.queries THEN <<>> ELSE full.text)
                   /\ <<page_cache.rects, page_cache.lines, page_cache.curves>> =
                          (IF "drawings" \in faults.queries THEN <<0, 0, 0>>
                           ELSE <<full.rects, full.lines, full.curves>>)
                   /\ page_cache.tables =
                          (IF "tables" \in faults.queries THEN 0 ELSE full.tables)
                   /\ page_cache.images =
                          (IF "images" \in faults.queries THEN <<>> ELSE full.images)

\* the candidates of the detectors that did not raise, in registration order
RemainingCandidates ==
    SelectSeq([i \in 1..Len(RegisteredDetectors) |->
                  [name   |-> RegisteredDetectors[i],
                   result |-> Detect(RegisteredDetectors[i], page_cache)]],
              LAMBDA e : e.name \notin faults.raising /\ e.result # NoResult)

\* C14: when a detector raises in detect_once, its candidate is omitted and
\* the classification returned is the fusion of exactly the candidates of the
\* other detectors, none of them removed or altered.
C14_DetectorFaultsIsolated ==
    (sys = "detect" /\ faults.raising # {} /\ faults.stuck = {}) =>
        /\ pc # "raised"
        /\ pc = "done" =>
               /\ results = RemainingCandidates
               /\ integrated = IntegrateResults(RemainingCandidates)

\* the flowchart detector would have had the highest confidence, but raised:
\* the page is classified as a table page
C14_Witness ==
    /\ sys = "detect" /\ pc = "done"
    /\ faults.raising = {"flowchart"} /\ faults.stuck = {}
    /\ FlowchartDetect(page_cache) # NoResult
    /\ FGreater(FlowchartDetect(page_cache).confidence, F_09)
    /\ integrated.primary_type = "table"
    /\ integrated.has_table /\ ~integrated.has_flowchart

\* C15: if the detect call of a detector never completes, detect_once still
\* returns, after the timeout, a classification built from the other
\* detectors.
C15_StuckDetectorDoesNotBlock ==
    (sys = "detect" /\ pc = "collect") ~> (sys = "detect" /\ pc = "done")


(***************************************************************************)
(* core/practical_optimizer.py: PracticalDocumentProcessor.process_pdf      *)
(***************************************************************************)
MaxPages == 2       \* bound: pages of a document

\* one page for each way analyze_page can end
DocPages ==
    { [NoPage EXCEPT !.text = <<"TXT">>],                               \* default
      [NoPage EXCEPT !.text = <<"TXT">>, !.text_density = 90],          \* quick pure text
      [NoPage EXCEPT !.text = <<"TOC", "NL", "TXT">>],                  \* skipped, if configured
      [NoPage EXCEPT !.text = <<"TXT">>,
                     !.tables = <<[cell_count |-> 5, bbox |-> <<0, 0, 100, 150>>]>>],
      [NoPage EXCEPT !.text = <<"TXT">>,
                     !.tables = <<[cell_count |-> 35, bbox |-> <<0, 0, 100, 150>>]>>],
      [NoPage EXCEPT !.text = <<"FIG", "SP", "TXT">>, !.rects = 3, !.lines = 6,
                     !.drawing_count = 9],
      [NoPage EXCEPT !.text = <<"TXT">>, !.rects = 1, !.drawing_count = 1] }

Docs == UNION {[1..n -> DocPages] : n \in 1..MaxPages}

\* results['summary'] and results['processed_pages'] as process_pdf starts
InitialSummary ==
    [text_pages |-> 0, image_pages |-> 0, hybrid_pages |-> 0, skipped_pages |-> 0,
     total_cost |-> F_0, processed_pages |-> <<>>]

\* analyze_page on page p: what it returns and what it leaves in self.stats
AnalysisOf(p, cfg) ==
    LET quick    == QuickScreening(p, cfg)
        ran      == ~quick.skip /\ ~quick.is_pure_text
        detailed == IF ran THEN DetailedAnalysis(p) ELSE NONE
    IN  [quick |-> quick, detailed |-> detailed, result |-> AnalyzePageOf(quick, detailed)]

\* _process_page: the page result, without the extracted text and image
ProcessPageOf(n, result) ==
    [page_number       |-> n,
     page_type         |-> result.page_type,
     processing_method |-> result.processing_method,
     confidence        |-> result.confidence]

\* the summary counter a processing method is counted under
CounterOf(method) ==
    IF method = "text_only" THEN "text_pages"
    ELSE IF method \in {"image_gemini", "image_ml"} THEN "image_pages"
    ELSE "hybrid_pages"

InitProcessPdf ==
    /\ sys = "process_pdf"
    /\ faults = NoFaults
    /\ config \in PracticalConfigs
    /\ pc = "loop"
    /\ page = NoPage
    /\ DetectIdle /\ HybridIdle /\ RegionIdle
    /\ stats = InitialStats
    /\ quick_result = NONE /\ detailed_result = NONE /\ analysis = NONE
    /\ doc \in Docs
    /\ page_num = 0
    /\ summary = InitialSummary
    /\ workers = <<>>
    /\ calls = 0

\* the body of "for page_num in range(doc.page_count)" for page p, the n-th of
\* the document: the results dict after it, and whether it raised.
\* analysis['cost_estimate'] of a dict without that key raises KeyError, which
\* nothing in process_pdf catches
ProcessPdfStep(sm, n, p, cfg) ==
    LET a       == AnalysisOf(p, cfg)
        counter == CounterOf(a.result.processing_method)
        counted == [sm EXCEPT
                       ![counter] = @ + 1,
                       !.processed_pages = Append(@, ProcessPageOf(n, a.result))]
    IN  IF a.result.skip
        THEN [summary |-> [sm EXCEPT !.skipped_pages = @ + 1], raised |-> FALSE]
        ELSE IF "cost_estimate" \in DOMAIN a.result
        THEN [summary |-> [counted EXCEPT !.total_cost = FAdd(@, a.result.cost_estimate)],
              raised  |-> FALSE]
        ELSE [summary |-> counted, raised |-> TRUE]

\* one pass of the loop of process_pdf
ProcessPage ==
    /\ sys = "process_pdf" /\ pc = "loop"
    /\ page_num < Len(doc)
    /\ LET p    == doc[page_num + 1]
           a    == AnalysisOf(p, config)
           step == ProcessPdfStep(summary, page_num + 1, p, config)
       IN  /\ page' = p
           /\ quick_result' = a.quick
           /\ detailed_result' = a.detailed
           /\ analysis' = a.result
           /\ stats' = CountPage(stats, a.quick, a.result)
           /\ summary' = step.summary
           /\ page_num' = IF step.raised THEN page_num ELSE page_num + 1
           /\ pc' = IF step.raised THEN "raised" ELSE pc
    /\ UNCHANGED <<calls, sys, config, faults, doc, workers, detectVars, hybridVars, regionVars>>

\* the loop of process_pdf from page n on
RECURSIVE ProcessPdfLoop(_, _, _, _)
ProcessPdfLoop(d, cfg, n, sm) ==
    IF n > Len(d) THEN [summary |-> sm, raised |-> FALSE]
    ELSE LET step == ProcessPdfStep(sm, n, d[n], cfg)
         IN  IF step.raised THEN step ELSE ProcessPdfLoop(d, cfg, n + 1, step.summary)

\* after the loop: doc.close(), results['analyzer_stats'] = self.analyzer.stats
FinishPdf ==
    /\ sys = "process_pdf" /\ pc = "loop"
    /\ page_num = Len(doc)
    /\ pc' = "done"
    /\ UNCHANGED <<docVars, sys, config, faults, page, detectVars, hybridVars,
                   practicalVars, analysis, regionVars>>

NextProcessPdf == ProcessPage \/ FinishPdf

SpecProcessPdf == InitProcessPdf /\ [][NextProcessPdf]_vars

\* a page with no text density, caption, keyword, drawing, table or image
NoEvidence(p) ==
    /\ Range(p.text) \subseteq {"TXT", "SP", "NL"}
    /\ p.text_density = 0
    /\ p.rects = 0 /\ p.lines = 0 /\ p.curves = 0
    /\ p.tables = <<>> /\ p.images = <<>>

\* C17: no exception leaves the per-page step of process_pdf, whichever way
\* analyze_page ended for the page (skip, quick pure-text short-circuit,
\* detailed analysis), and a page with no usable evidence ends with the
\* default decision text_only with confidence 0.5.
C17_NoExceptionEscapesPageStep ==
    sys = "process_pdf" =>
        /\ pc # "raised"
        /\ (page_num > 0 /\ NoEvidence(page) /\ ~analysis.skip) =>
               /\ analysis.processing_method = "text_only"
               /\ analysis.confidence = F_05


(***************************************************************************)
(* PracticalDocumentProcessor.process_pdf_parallel: one pool thread per     *)
(* page runs _process_page_parallel, all on the one self.analyzer.  The     *)
(* statement self.stats[key] += 1 reads the counter and writes it back in   *)
(* two steps, between which other threads run.                              *)
(***************************************************************************)
\* the self.stats counter analyze_page increments after 'analyzed_pages'
OutcomeCounter(a) ==
    IF a.quick.skip THEN "skipped_pages"
    ELSE IF a.result.page_type = "pure_text" THEN "text_pages"
    ELSE "figure_pages"

\* what _process_page_parallel returns for page n
PageResultOf(n, result) ==
    IF result.skip
    THEN [page_number |-> n, skip |-> TRUE, reason |-> result.reason]
    ELSE ProcessPageOf(n, result)

InitParallel ==
    /\ sys = "parallel"
    /\ faults = NoFaults
    /\ config \in PracticalConfigs
    /\ pc = "collect"
    /\ page = NoPage
    /\ DetectIdle /\ HybridIdle /\ RegionIdle
    /\ stats = InitialStats
    /\ quick_result = NONE /\ detailed_result = NONE /\ analysis = NONE
    /\ doc \in Docs
    /\ page_num = 0
    /\ summary = InitialSummary
    /\ workers = [n \in 1..Len(doc) |-> [state |-> "submitted", loaded |-> 0]]
    /\ calls = 0

\* thread n, self.stats['analyzed_pages'] += 1: the read
LoadAnalyzed(n) ==
    /\ sys = "parallel" /\ workers[n].state = "submitted"
    /\ workers' = [workers EXCEPT ![n] = [state |-> "counting", loaded |-> stats.analyzed_pages]]
    /\ UNCHANGED <<calls, sys, config, faults, pc, page, doc, page_num, summary,
                   detectVars, hybridVars, practicalVars, analysis, regionVars>>

\* thread n, self.stats['analyzed_pages'] += 1: the write; then the analysis
\* of the page, up to the next counter
StoreAnalyzed(n) ==
    /\ sys = "parallel" /\ workers[n].state = "counting"
    /\ stats' = [stats EXCEPT !.analyzed_pages = workers[n].loaded + 1]
    /\ workers' = [workers EXCEPT ![n].state = "analyzed"]
    /\ UNCHANGED <<calls, sys, config, faults, pc, page, doc, page_num, summary, quick_result,
                   detailed_result, detectVars, hybridVars, analysis, regionVars>>

\* thread n, self.stats[key] += 1 for the outcome of the page: the read
LoadOutcome(n) ==
    /\ sys = "parallel" /\ workers[n].state = "analyzed"
    /\ workers' = [workers EXCEPT ![n] =
                      [state  |-> "recording",
                       loaded |-> stats[OutcomeCounter(AnalysisOf(doc[n], config))]]]
    /\ UNCHANGED <<calls, sys, config, faults, pc, page, doc, page_num, summary,
                   detectVars, hybridVars, practicalVars, analysis, regionVars>>

\* thread n, self.stats[key] += 1 for the outcome of the page: the write; then
\* the rest of _process_page_parallel, which returns the page result
StoreOutcome(n) ==
    /\ sys = "parallel" /\ workers[n].state = "recording"
    /\ stats' = [stats EXCEPT ![OutcomeCounter(AnalysisOf(doc[n], config))] =
                                   workers[n].loaded + 1]
    /\ workers' = [workers EXCEPT ![n].state = "done"]
    /\ UNCHANGED <<calls, sys, config, faults, pc, page, doc, page_num, summary, quick_result,
                   detailed_result, detectVars, hybridVars, analysis, regionVars>>

\* main thread, one pass of "for future in as_completed(future_to_page)"
CollectPage(n) ==
    /\ sys = "parallel" /\ pc = "collect"
    /\ workers[n].state = "done"
    /\ LET page_result == PageResultOf(n, AnalysisOf(doc[n], config).result)
           counter == IF "skip" \in DOMAIN page_result THEN "skipped_pages"
                      ELSE CounterOf(page_result.processing_method)
       IN  summary' = [summary EXCEPT
                          ![counter] = @ + 1,
                          !.processed_pages = Append(@, page_result),
                          !.total_cost =
                              IF "cost_estimate" \in DOMAIN page_result
                              THEN FAdd(@, page_result.cost_estimate) ELSE @]
    /\ workers' = [workers EXCEPT ![n].state = "collected"]
    /\ page_num' = page_num + 1
    /\ UNCHANGED <<calls, sys, config, faults, pc, page, doc, detectVars, hybridVars,
                   practicalVars, analysis, regionVars>>

\* results['processed_pages'].sort(key=page_number): a stable insertion sort
RECURSIVE SortByPageNumber(_)
SortByPageNumber(rs) ==
    IF rs = <<>> THEN <<>>
    ELSE LET sorted == SortByPageNumber(SubSeq(rs, 1, Len(rs) - 1))
             last   == rs[Len(rs)]
             before == SelectSeq(sorted, LAMBDA r : r.page_number <= last.page_number)
             after  == SelectSeq(sorted, LAMBDA r : r.page_number > last.page_number)
         IN  before \o <<last>> \o after

\* after the with block: sort the page results, attach self.analyzer.stats
FinishParallel ==
    /\ sys = "parallel" /\ pc = "collect"
    /\ \A n \in DOMAIN workers : workers[n].state = "collected"
    /\ summary' = [summary EXCEPT !.processed_pages = SortByPageNumber(@)]
    /\ pc' = "done"
    /\ UNCHANGED <<calls, sys, config, faults, page, doc, page_num, workers, detectVars,
                   hybridVars, practicalVars, analysis, regionVars>>

NextParallel ==
    \/ \E n \in DOMAIN workers : LoadAnalyzed(n)
    \/ \E n \in DOMAIN workers : StoreAnalyzed(n)
    \/ \E n \in DOMAIN workers : LoadOutcome(n)
    \/ \E n \in DOMAIN workers : StoreOutcome(n)
    \/ \E n \in DOMAIN workers : CollectPage(n)
    \/ FinishParallel

SpecParallel == InitParallel /\ [][NextParallel]_vars

\* C16: for every interleaving of the worker threads of process_pdf_parallel
\* no update of one page's worker is lost to another's: at the end
\* stats['analyzed_pages'] is the number of analyze_page calls made, and the
\* outcome counters add up to it.
C16_NoLostUpdates ==
    (sys = "parallel" /\ pc = "done") =>
        /\ stats.analyzed_pages = Len(doc)
        /\ stats.skipped_pages + stats.text_pages + stats.figure_pages = Len(doc)

(***************************************************************************)
(* FlowchartDetector.detect on its own: a detector constructed with a       *)
(* configured min_arrows_for_flowchart is called once on the cache of a     *)
(* page.                                                                    *)
(***************************************************************************)
MaxFlowLines == 18

FlowchartConfigs == {[min_arrows_for_flowchart |-> k] : k \in 1..3}

FlowchartPages ==
    { [NoPage EXCEPT !.text = text, !.rects = rects, !.lines = lines,
                     !.drawing_count = rects + lines] :
        text \in DetectTexts, rects \in 0..MaxRects, lines \in 0..MaxFlowLines }

InitFlowchart ==
    /\ sys = "flowchart"
    /\ faults = NoFaults
    /\ DocIdle
    /\ config \in FlowchartConfigs
    /\ pc = "call"
    /\ page \in FlowchartPages
    /\ DetectIdle /\ HybridIdle /\ PracticalIdle /\ RegionIdle
    /\ analysis = NONE

\* detector.detect(page_cache)
DetectFlowchart ==
    /\ sys = "flowchart" /\ pc = "call"
    /\ page_cache' = BuildCacheUnder(page, {})
    /\ results' = [flowchart |->
                      FlowchartDetectWith(page_cache', config.min_arrows_for_flowchart)]
    /\ pc' = "returned"
    /\ UNCHANGED <<docVars, sys, config, faults, page, futures, integrated, hybridVars,
                   practicalVars, analysis, regionVars>>

NextFlowchart == DetectFlowchart

SpecFlowchart == InitFlowchart /\ [][NextFlowchart]_vars

\* n times the double 0.05 without rounding: n twentieths, less than n units
\* of 2^-58 above the real number
Twentieths(n) == ExactTimes(n, F_005)

\* closer than 2^-48 to each other, far below the 0.05 between two confidences
Near(x, y) ==
    LET tolerance == 2^10
    IN  \/ x[1] = y[1] /\ x[2] - y[2] <= tolerance /\ y[2] - x[2] <= tolerance
        \/ x[1] = y[1] + 1 /\ x[2] + Limb - y[2] <= tolerance
        \/ y[1] = x[1] + 1 /\ y[2] + Limb - x[2] <= tolerance

\* C18: FlowchartDetector.detect returns a candidate exactly when the page has
\* at least 3 rectangles and floor(line_count / 3) is at least the configured
\* min_arrows_for_flowchart; the candidate's confidence is
\* min(0.6 + 0.1 * arrows + 0.05 * keyword_matches, 1.0), up to the rounding of
\* floats, and its complexity is complex above 5 arrows, medium otherwise
C18_FlowchartCandidateRule ==
    (sys = "flowchart" /\ pc = "returned") =>
        LET rectangle_count == page.rects
            arrow_estimate  == page.lines \div 3
            keyword_matches == FlowchartKeywordMatches(page.text)
            candidate       == results.flowchart
        IN  /\ candidate.type = "flowchart" <=>
                   (rectangle_count >= 3
                      /\ arrow_estimate >= config.min_arrows_for_flowchart)
            /\ candidate.type = "flowchart" =>
                   /\ Near(candidate.confidence,
                           Twentieths(Min2(12 + 2 * arrow_estimate
                                               + keyword_matches, 20)))
                   /\ FLeq(candidate.confidence, F_1)
                   /\ candidate.complexity =
                          IF arrow_estimate > 5 THEN "complex" ELSE "medium"

\* a complex flowchart with a clamped confidence has been returned
C18_Witness ==
    /\ sys = "flowchart" /\ pc = "returned"
    /\ results.flowchart.type = "flowchart"
    /\ results.flowchart.complexity = "complex"
    /\ results.flowchart.confidence = F_1
    /\ FlowchartKeywordMatches(page.text) = 2

(***************************************************************************)
(* The quick text-only gate of PracticalPageAnalyzer.analyze_page.          *)
(***************************************************************************)
\* analyze_page returned from its quick branch: pure_text, text_only, 0.9, and
\* _detailed_analysis was not run
ShortCircuited(result) ==
    /\ ~result.skip
    /\ "detailed" \notin DOMAIN result
    /\ result.page_type = "pure_text"
    /\ result.processing_method = "text_only"
    /\ result.confidence = F_09

\* the gate as stated on the page signals: dense text, no figure number in
\* caption position, no oversized image, no forced keyword
PassesTextOnlyGate(p) ==
    /\ p.text_density > QuickTextDensityThreshold
    /\ ~MatchesCaptionPosition(p.text)
    /\ LargeImages(p.images) = <<>>
    /\ ~HasForceKeywords(p.text)

\* C19: analyze_page takes the short-circuit (pure_text, text_only, 0.9, no
\* detailed analysis) if and only if the text density is above
\* quick_text_density_threshold and the page has no actual caption, no
\* oversized image and no forced keyword
C19_QuickTextOnlyGate ==
    (sys = "practical" /\ pc = "analyzed") =>
        (ShortCircuited(analysis) <=> PassesTextOnlyGate(page))

\* what analyze_page would return for the page without its quick branch:
\* _detailed_analysis followed by _determine_processing
FullPath(p, quick) == DetermineProcessing(quick, DetailedAnalysis(p))

\* C20: for every page that takes the short-circuit, the page_type and the
\* method it returns are the ones _detailed_analysis followed by
\* _determine_processing would return for the same page, tables and
\* rectangles included
C20_ShortCircuitIsOptimization ==
    (sys = "practical" /\ pc = "analyzed" /\ ShortCircuited(analysis)) =>
        LET full == FullPath(page, quick_result)
        IN  /\ analysis.page_type = full.page_type
            /\ analysis.processing_method = full.processing_method

(***************************************************************************)
(* The rules of PracticalPageAnalyzer._determine_processing.                *)
(***************************************************************************)
\* analyze_page went through _detailed_analysis and _determine_processing
FullyAnalyzed ==
    sys = "practical" /\ pc = "analyzed" /\ "detailed" \in DOMAIN analysis

\* no shape, table or image evidence on the page: all shape counts zero, no
\* table, no image above 100 x 100
NoVisualEvidence(p) ==
    /\ p.rects = 0 /\ p.lines = 0 /\ p.curves = 0
    /\ p.tables = <<>>
    /\ SignificantImages(p.images, SignificantImageSize) = <<>>

\* C21: a matched figure number is downgraded to a reference (pure_text /
\* text_only, before every later rule) exactly when the page has no shape,
\* table or image evidence (rectangles, lines and curves all zero, no table,
\* no significant image); with any such evidence the later rules decide
C21_VisualElementGate ==
    (FullyAnalyzed /\ MatchesFigureNumber(page.text)) =>
        LET decided == Processing(analysis.page_type, analysis.processing_method,
                                  analysis.confidence)
        IN  IF NoVisualEvidence(page)
            THEN decided = Processing("pure_text", "text_only", F_09)
            ELSE decided = LaterRules(quick_result, detailed_result)

\* C22: when a figure number in caption position coexists with visual
\* evidence, _determine_processing decides before any density or threshold
\* rule: table type if the page has a table, else flowchart if it has shape
\* evidence, else diagram, and the page is rasterized in all three cases
C22_CaptionWithVisualsIsRasterized ==
    (FullyAnalyzed /\ MatchesCaptionPosition(page.text) /\ ~NoVisualEvidence(page)) =>
        /\ analysis.page_type =
               (IF page.tables # <<>> THEN "complex_table"
                ELSE IF page.rects + page.lines + page.curves > 0 THEN "flowchart"
                ELSE "diagram")
        /\ analysis.processing_method \in {"image_gemini", "image_ml"}

(***************************************************************************)
(* RegionBasedProcessor._detect_figure_clusters on pages whose drawings     *)
(* have line or curve items of several extents, in every discovery order.   *)
(***************************************************************************)
MaxShapes == 3

\* extents of drawings: centres (25,25), (50,50), (75,75), (80,80), (110,110)
\* and (150,150)
ShapeBBoxes ==
    { <<0, 0, 50, 50>>, <<0, 0, 100, 100>>, <<50, 50, 100, 100>>,
      <<40, 40, 120, 120>>, <<90, 90, 130, 130>>, <<100, 100, 200, 200>> }

\* pages with up to MaxShapes drawings that have an extent, and none or two
\* more drawings without line or curve items
ClusterPages ==
    { [NoPage EXCEPT !.shapes = shapes, !.drawing_count = Len(shapes) + others] :
        shapes \in SeqsUpTo(ShapeBBoxes, MaxShapes), others \in {0, 2} }

InitCluster ==
    /\ sys = "cluster"
    /\ faults = NoFaults
    /\ DocIdle
    /\ config = NONE
    /\ pc = "start"
    /\ page \in ClusterPages
    /\ DetectIdle /\ HybridIdle /\ PracticalIdle /\ RegionIdle
    /\ analysis = NONE

\* clusters = self._detect_figure_clusters(page)
DetectClusters ==
    /\ sys = "cluster" /\ pc = "start"
    /\ clusters' = DetectFigureClusters(page)
    /\ pc' = "done"
    /\ UNCHANGED <<docVars, sys, config, faults, page, detectVars, hybridVars, practicalVars,
                   analysis, regions, merged_once, merged_twice, clip_rect>>

NextCluster == DetectClusters

SpecCluster == InitCluster /\ [][NextCluster]_vars

\* the smallest box around the shapes s..e of a list
RunUnion(shapes, s, e) ==
    LET coord(k) == {shapes[i][k] : i \in s..e}
        least(S) == CHOOSE x \in S : \A y \in S : x <= y
        most(S)  == CHOOSE x \in S : \A y \in S : x >= y
    IN  <<least(coord(1)), least(coord(2)), most(coord(3)), most(coord(4))>>

\* the centres of two boxes are less than cluster_threshold apart (the
\* coordinate sums are twice the centres)
CentresWithinThreshold(a, b) ==
    (a[1] + a[3] - b[1] - b[3]) ^ 2 + (a[2] + a[4] - b[2] - b[4]) ^ 2
        < (2 * ClusterThreshold) ^ 2

\* starts is the set of first shapes of the runs a single pass with one
\* running cluster makes: a shape continues the run when it is close to the
\* union of the run so far, and starts a new run otherwise
IsGreedyRuns(shapes, starts) ==
    /\ 1 \in starts
    /\ \A i \in 2..Len(shapes) :
           LET s == CHOOSE t \in starts : t < i /\ \A u \in starts : u < i => u <= t
           IN  (i \notin starts) <=> CentresWithinThreshold(RunUnion(shapes, s, i - 1), shapes[i])

\* the unions of the runs, in order, that are larger than min_figure_area
RetainedRuns(shapes, starts) ==
    LET end(s) == IF \E t \in starts : t > s
                  THEN (CHOOSE t \in starts : t > s /\ \A u \in starts : u > s => t <= u) - 1
                  ELSE Len(shapes)
        all == [i \in 1..Len(shapes) |->
                   IF i \in starts THEN RunUnion(shapes, i, end(i)) ELSE NoBBox]
    IN  SelectSeq(all, LAMBDA b : b # NoBBox /\ BBoxArea(b) > MinFigureArea)

RECURSIVE AccumulatorInner(_, _, _)
AccumulatorInner(rs, j, acc) ==
    IF j > Len(rs) THEN acc
    ELSE IF j \notin acc.used /\ DoBBoxesOverlap(acc.merged_bbox, rs[j].bbox)
         THEN AccumulatorInner(rs, j + 1,
                  [merged_bbox |-> MergeBBoxes(acc.merged_bbox, rs[j].bbox),
                   used        |-> acc.used \cup {j}])
         ELSE AccumulatorInner(rs, j + 1, acc)

\* the bboxes a scan in detection order produces when consumed regions are
\* skipped and each other region is merged with AccumulatorInner
RECURSIVE AccumulatorOuter(_, _, _, _)
AccumulatorOuter(rs, i, used, boxes) ==
    IF i > Len(rs) THEN boxes
    ELSE IF i \in used THEN AccumulatorOuter(rs, i + 1, used, boxes)
    ELSE LET acc == AccumulatorInner(rs, i + 1, [merged_bbox |-> rs[i].bbox, used |-> used])
         IN  AccumulatorOuter(rs, i + 1, acc.used, Append(boxes, acc.merged_bbox))

BBoxesOf(rs) == [i \in 1..Len(rs) |-> rs[i].bbox]

\* C24: _merge_overlapping_regions scans the regions in detection order,
\* skips a region already consumed, and merges into the accumulator (the bbox
\* union built so far for the current region) every later unconsumed region
\* that overlaps the accumulator
C24_MergeAgainstAccumulator ==
    (sys = "merge" /\ pc \in {"merged", "done"}) =>
        BBoxesOf(merged_once) = AccumulatorOuter(regions, 1, {}, <<>>)

\* _merge_overlapping_regions called with the regions of a page in any order
AnyOrderBoxes == {<<0, 0, 100, 150>>, <<50, 0, 150, 150>>, <<0, 200, 150, 350>>}

AnyOrderLists ==
    LET raw == SeqsUpTo({[bbox |-> b, type |-> RegionKinds[k]] :
                            b \in AnyOrderBoxes, k \in 1..3}, MaxRegions)
    IN  {[i \in 1..Len(rs) |->
             FigureRegion(rs[i].bbox, rs[i].type, KindConfidence(rs[i].type), i - 1)] :
         rs \in raw}

InitMergeAnyOrder ==
    /\ sys = "merge"
    /\ faults = NoFaults
    /\ DocIdle
    /\ config = NONE
    /\ pc = "start"
    /\ page = NoPage
    /\ regions \in AnyOrderLists
    /\ merged_once = <<>> /\ merged_twice = <<>> /\ clusters = <<>> /\ clip_rect = NoBBox
    /\ DetectIdle /\ HybridIdle /\ PracticalIdle
    /\ analysis = NONE

SpecMergeAnyOrder == InitMergeAnyOrder /\ [][NextMerge]_vars

\* the positions of the regions merged into each output region: the region
\* the outer loop stands on and the later regions the inner loop adds to used
RECURSIVE MergedGroups(_, _, _, _)
MergedGroups(rs, i, used, groups) ==
    IF i > Len(rs) THEN groups
    ELSE IF i \in used THEN MergedGroups(rs, i + 1, used, groups)
    ELSE LET group == {i} \cup {j \in (i + 1)..Len(rs) :
                                   j \notin used /\ DoBBoxesOverlap(rs[i].bbox, rs[j].bbox)}
         IN  MergedGroups(rs, i + 1, used \cup group, Append(groups, group))

\* C25: for every list of regions in any order, each region output by
\* _merge_overlapping_regions carries the type of the contributor that has
\* the highest confidence among all regions merged into it
C25_TypeOfMostConfidentContributor ==
    (sys = "merge" /\ pc \in {"merged", "done"}) =>
        LET groups == MergedGroups(regions, 1, {}, <<>>)
        IN  /\ Len(merged_once) = Len(groups)
            /\ \A k \in 1..Len(groups) :
                   \E best \in groups[k] :
                       /\ \A j \in groups[k] :
                              FLeq(regions[j].confidence, regions[best].confidence)
                       /\ merged_once[k].type = regions[best].type

(***************************************************************************)
(* RegionBasedProcessor.extract_region: the clip rectangle for a bbox and a *)
(* margin, on a page of a given size.  The bboxes lie inside the page,      *)
(* across one of its edges, or outside of it.                               *)
(***************************************************************************)
ExtractPageRects == {[width |-> 200, height |-> 300]}

\* [from, to] along one axis, relative to the extent of the page along it:
\* inside, across the far edge, beyond it, before the origin, across it
Spans(extent) ==
    { <<50, 100>>, <<extent - 50, extent + 50>>, <<extent + 50, extent + 100>>,
      <<-100, -50>>, <<-5, 50>> }

ExtractMargins == {0, RegionMargin, 2 * RegionMargin}

InitExtract ==
    /\ sys = "extract"
    /\ faults = NoFaults
    /\ DocIdle
    /\ \E margin \in ExtractMargins : config = [margin |-> margin]
    /\ pc = "start"
    /\ \E rect \in ExtractPageRects :
           /\ page = [rect |-> rect]
           /\ \E h \in Spans(rect.width), v \in Spans(rect.height) :
                  regions = <<FigureRegion(<<h[1], v[1], h[2], v[2]>>, "figure", F_07, 0)>>
    /\ merged_once = <<>> /\ merged_twice = <<>> /\ clusters = <<>> /\ clip_rect = NoBBox
    /\ DetectIdle /\ HybridIdle /\ PracticalIdle
    /\ analysis = NONE

\* clip_rect = fitz.Rect(max(0, bbox[0] - margin), ..., min(height, bbox[3] + margin))
ClipRect(p, bbox, margin) ==
    <<Max2(0, bbox[1] - margin), Max2(0, bbox[2] - margin),
      Min2(p.rect.width, bbox[3] + margin), Min2(p.rect.height, bbox[4] + margin)>>

\* self.extract_region(page, region.bbox, margin)
ExtractRegion ==
    /\ sys = "extract" /\ pc = "start"
    /\ clip_rect' = ClipRect(page, regions[1].bbox, config.margin)
    /\ pc' = "done"
    /\ UNCHANGED <<docVars, sys, config, faults, page, detectVars, hybridVars, practicalVars,
                   analysis, regions, merged_once, merged_twice, clusters>>

NextExtract == ExtractRegion

SpecExtract == InitExtract /\ [][NextExtract]_vars

\* C26: after margin expansion the bbox is clamped to the page: the clip
\* rectangle of extract_region satisfies 0 <= x0 <= x1 <= page width and
\* 0 <= y0 <= y1 <= page height for every bbox and margin, also for a bbox
\* partly or wholly outside the page
C26_ClipRectInsidePage ==
    (sys = "extract" /\ pc = "done") =>
        /\ 0 <= clip_rect[1] /\ clip_rect[1] <= clip_rect[3]
        /\ clip_rect[3] <= page.rect.width
        /\ 0 <= clip_rect[2] /\ clip_rect[2] <= clip_rect[4]
        /\ clip_rect[4] <= page.rect.height

\* bbox a lies within bbox b
BBoxInside(a, b) == b[1] <= a[1] /\ b[2] <= a[2] /\ a[3] <= b[3] /\ a[4] <= b[4]

\* C27: merging loses no region: the bbox of each input region is contained
\* in the bbox of exactly one output region of _merge_overlapping_regions,
\* the output has at most as many regions as the input, and the output
\* indices are 0..n-1 in output order
C27_MergeLosesNoRegion ==
    (sys = "merge" /\ pc \in {"merged", "done"}) =>
        /\ \A i \in 1..Len(regions) :
               Cardinality({k \in 1..Len(merged_once) :
                               BBoxInside(regions[i].bbox, merged_once[k].bbox)}) = 1
        /\ Len(merged_once) <= Len(regions)
        /\ \A k \in 1..Len(merged_once) : merged_once[k].index = k - 1

(***************************************************************************)
(* process_pdf and process_pdf_parallel on the same document.               *)
(***************************************************************************)
\* C28: for the same document process_pdf and process_pdf_parallel return the
\* same summary counters (text_pages, image_pages, hybrid_pages,
\* skipped_pages, total_cost) and the same processed_pages entries in
\* page-number order, for every completion order of the page workers
C28_SequentialAndParallelAgree ==
    (sys = "parallel" /\ pc = "done") =>
        LET sequential == ProcessPdfLoop(doc, config, 1, InitialSummary)
        IN  /\ ~sequential.raised
            /\ summary = sequential.summary

(***************************************************************************)
(* HybridProcessor.process_document, called once or several times on one    *)
(* processor instance.  self.stats is built in __init__ and is the dict     *)
(* each call returns as all_results['statistics'].                          *)
(***************************************************************************)
MaxDocuments == 2

\* self.stats of HybridProcessor.__init__; total_images_extracted and
\* total_figures, which count images and not pages, are left out.
\* cost_saved_percentage = (saved_pages / total_pages) * 100 is held as the
\* fraction saved_tenths / (10 * total_pages) of 100
HybridInitialStats ==
    [text_only_pages |-> 0, image_extraction_pages |-> 0, full_page_pages |-> 0,
     hybrid_pages |-> 0,
     cost_saved_percentage |-> [saved_tenths |-> 0, total_pages |-> 1]]

\* one page for each method analyze_page_content can choose
HybridDocPages ==
    { [NoPage EXCEPT !.text = <<"TXT">>],
      [NoPage EXCEPT !.text = <<"TXT">>,
                     !.images = <<[width |-> 400, height |-> 300,
                                   bbox |-> <<0, 0, 400, 300>>]>>],
      [NoPage EXCEPT !.text = <<"FIG", "SP", "TXT">>],
      [NoPage EXCEPT !.text = <<"TXT">>,
                     !.tables = <<[cell_count |-> 5, bbox |-> <<0, 0, 100, 150>>]>>,
                     !.images = <<[width |-> 400, height |-> 300,
                                   bbox |-> <<0, 0, 400, 300>>]>>] }

HybridDocs == UNION {[1..n -> HybridDocPages] : n \in 1..MaxPages}

\* the self.stats counter process_page_hybrid increments for a method
HybridCounterOf(method) ==
    CASE method = "text_only"      -> "text_only_pages"
      [] method = "extract_images" -> "image_extraction_pages"
      [] method = "full_page"      -> "full_page_pages"
      [] OTHER                     -> "hybrid_pages"

\* processor = HybridProcessor(config)
InitHybridDocument ==
    /\ sys = "hybrid_document"
    /\ faults = NoFaults
    /\ config = NONE
    /\ pc = "idle"
    /\ page = NoPage
    /\ DetectIdle /\ HybridIdle /\ RegionIdle
    /\ stats = HybridInitialStats
    /\ quick_result = NONE /\ detailed_result = NONE /\ analysis = NONE
    /\ DocIdle

\* processor.process_document(pdf_path, output_dir), up to the page loop
StartDocument ==
    /\ sys = "hybrid_document" /\ pc = "idle"
    /\ calls < MaxDocuments
    /\ \E d \in HybridDocs :
           /\ doc' = d
           /\ summary' = [total_pages |-> Len(d), pages |-> <<>>]
    /\ page_num' = 0
    /\ calls' = calls + 1
    /\ pc' = "loop"
    /\ UNCHANGED <<sys, config, faults, page, workers, detectVars, hybridVars,
                   practicalVars, analysis, regionVars>>

\* one pass of "for page_num in range(total_pages)": process_page_hybrid
ProcessPageHybrid ==
    /\ sys = "hybrid_document" /\ pc = "loop"
    /\ page_num < Len(doc)
    /\ page' = doc[page_num + 1]
    /\ decision' = AnalyzePageContentOf(page')
    /\ stats' = [stats EXCEPT ![HybridCounterOf(decision'.method)] = @ + 1]
    /\ summary' = [summary EXCEPT !.pages =
                       Append(@, [page_number |-> page_num + 1, method |-> decision'.method])]
    /\ page_num' = page_num + 1
    /\ UNCHANGED <<sys, config, faults, pc, doc, workers, calls, detectVars,
                   quick_result, detailed_result, analysis, regionVars>>

\* after the loop: cost_saved_percentage from self.stats and total_pages
FinishDocument ==
    /\ sys = "hybrid_document" /\ pc = "loop"
    /\ page_num = Len(doc)
    /\ stats' = [stats EXCEPT !.cost_saved_percentage =
                     [saved_tenths |-> 10 * stats.text_only_pages
                                       + 7 * stats.image_extraction_pages,
                      total_pages  |-> summary.total_pages]]
    /\ pc' = "idle"
    /\ UNCHANGED <<docVars, sys, config, faults, page, detectVars, hybridVars,
                   quick_result, detailed_result, analysis, regionVars>>

NextHybridDocument == StartDocument \/ ProcessPageHybrid \/ FinishDocument

SpecHybridDocument == InitHybridDocument /\ [][NextHybridDocument]_vars

\* C29: the statistics process_document returns describe that document
\* only: after each call the four page counters add up to the document's
\* total_pages, and cost_saved_percentage is at most 100, also when the
\* instance has processed other documents before
C29_StatisticsOfThisDocument ==
    (sys = "hybrid_document" /\ pc = "idle" /\ calls > 0) =>
        /\ stats.text_only_pages + stats.image_extraction_pages
               + stats.full_page_pages + stats.hybrid_pages = summary.total_pages
        /\ stats.cost_saved_percentage.saved_tenths
               <= 10 * stats.cost_saved_percentage.total_pages

(***************************************************************************)
(* The flags of the FigureDetectionResult _integrate_results returns.       *)
(***************************************************************************)
\* the types of the candidates in the results dict given to _integrate_results
CandidateTypes == {results[i].result.type : i \in 1..Len(results)}

\* the has_X flag of a FigureDetectionResult for a candidate type
FlagOf(r, type) ==
    CASE type = "table"          -> r.has_table
      [] type = "flowchart"      -> r.has_flowchart
      [] type = "embedded_image" -> r.has_embedded_image
      [] type = "diagram"        -> r.has_diagram

\* C30: in every result of _integrate_results, has_figure is true exactly when
\* one of has_flowchart, has_embedded_image, has_diagram is true, a table
\* candidate sets has_table only, and each has_X flag is true exactly when a
\* candidate of type X is among the results.
C30_FlagsFollowCandidates ==
    DetectDone =>
        /\ integrated.has_figure <=>
               (integrated.has_flowchart \/ integrated.has_embedded_image
                   \/ integrated.has_diagram)
        /\ \A type \in {"table", "flowchart", "embedded_image", "diagram"} :
               FlagOf(integrated, type) <=> type \in CandidateTypes
        /\ CandidateTypes = {"table"} =>
               /\ integrated.has_table
               /\ ~integrated.has_figure /\ ~integrated.has_flowchart
               /\ ~integrated.has_embedded_image /\ ~integrated.has_diagram

\* a finished detect_once whose only candidate is a table
C30_Witness ==
    /\ DetectDone
    /\ CandidateTypes = {"table"}
    /\ integrated.has_table
    /\ ~integrated.has_figure

====
